---------------------------- MODULE Spec2Model ----------------------------
(***************************************************************************)
(* A model of synapse: the probe client's measurement engine, the 8-byte   *)
(* packet codec, the transport the engine drives, the latency statistics   *)
(* with the report made from them, and the server's counters and monitor.  *)
(*                                                                         *)
(* Two client implementations live in the repository and both are          *)
(* modelled: the library engine (src/src/client/measurement.rs, generic   *)
(* over NetworkSocket) and the standalone binary (src/src/bin/client.rs,   *)
(* directly over a UdpSocket).                                             *)
(***************************************************************************)
EXTENDS Integers, Sequences, FiniteSets, TLC

(***************************************************************************)
(* Bounds of the model.                                                    *)
(***************************************************************************)
\* Longest raw input handed to Packet::decode.
MaxBytes == 9

\* Largest warmup_count + packet_count the client is started with.
MaxAttempts == 3

\* The configured read timeout, in clock ticks.
TimeoutTicks == 1

\* Transport faults during one run: failed sends, failed receives (other
\* than an expired timeout) and replies cut short.
MaxFaults == 1

\* The longest latency slice handed to Statistics::new.
MaxSamples == 3

\* The threads that count concurrently, and the calls each makes.
Threads == 2

CallsPerThread == 3

\* The calls the server's main thread makes on its handle.
MaxCalls == 3

\* How long the clock runs, in steps of ClockStepMs.
MaxClockTicks == 2

\* The clock steps the display thread is watched for, and the packets
\* that are received meanwhile.
MaxDisplayTicks == 10

MaxPackets == 2

\* The clock steps the datagram server is watched for, the datagrams its
\* peers send meanwhile, and the receives, connects and sends that fail.
MaxServerTicks == 4

MaxDatagrams == 2

MaxServerFaults == 1

\* The packets the stream's peer writes, and the recv_packet calls made.
MaxStreamPackets == 2

MaxReceives == 2

(***************************************************************************)
(* Program constants.                                                      *)
(***************************************************************************)
PACKET_SIZE == 8

None == [tag |-> "None"]

\* No address: a socket that is not connected, a datagram not yet received.
NoPeer == "none"

(***************************************************************************)
(* u64.  TLC integers are 32 bits wide, so a u64 is held as four 16-bit    *)
(* limbs, least significant first: the value is                            *)
(*   l[1] + 2^16 * l[2] + 2^32 * l[3] + 2^48 * l[4].                       *)
(***************************************************************************)
LimbBase == 65536

ByteBase == 256

\* The limb values the inputs are drawn from: both ends of the range, and
\* values whose two bytes differ.
LimbSamples == {0, 1, 258, 65535}

U64Samples == [1..4 -> LimbSamples]

\* `i as u64` for a usize i below 2^31.
U64FromNat(n) == [j \in 1..4 |-> IF j = 1 THEN n % LimbBase
                                  ELSE IF j = 2 THEN n \div LimbBase
                                  ELSE 0]

SequenceNumber(v) == [value |-> v]

\* Packet::new
PacketNew(sequence) == [sequence |-> sequence]

\* u64::to_le_bytes: byte i (0-based) holds bits 8i..8i+7.
ToLeBytes(v) == [i \in 1..PACKET_SIZE |->
                    IF i % 2 = 1 THEN v[(i + 1) \div 2] % ByteBase
                                 ELSE v[i \div 2] \div ByteBase]

\* u64::from_le_bytes on an 8-byte array.
FromLeBytes(buf) == [j \in 1..4 |-> buf[2 * j - 1] + ByteBase * buf[2 * j]]

\* Packet::encode written with to_be_bytes: most significant byte first.
EncodeBigEndian(packet) ==
    [i \in 1..PACKET_SIZE |-> ToLeBytes(packet.sequence.value)[PACKET_SIZE + 1 - i]]

\* Packet::encode
Encode(packet) == ToLeBytes(packet.sequence.value)

\* A decode that reads the bytes most significant first.
DecodeBigEndian(bytes) ==
    IF Len(bytes) < PACKET_SIZE
    THEN [tag |-> "Err", variant |-> "Protocol",
          expected |-> PACKET_SIZE, actual |-> Len(bytes)]
    ELSE LET buf == [i \in 1..PACKET_SIZE |-> bytes[PACKET_SIZE + 1 - i]]
         IN  [tag |-> "Ok", packet |-> PacketNew(SequenceNumber(FromLeBytes(buf)))]

\* A decode that takes the last 8 bytes of its input.
DecodeTail(bytes) ==
    IF Len(bytes) < PACKET_SIZE
    THEN [tag |-> "Err", variant |-> "Protocol",
          expected |-> PACKET_SIZE, actual |-> Len(bytes)]
    ELSE LET off == Len(bytes) - PACKET_SIZE
             buf == [i \in 1..PACKET_SIZE |-> bytes[off + i]]
         IN  [tag |-> "Ok", packet |-> PacketNew(SequenceNumber(FromLeBytes(buf)))]

\* Packet::decode
Decode(bytes) ==
    IF Len(bytes) < PACKET_SIZE
    THEN [tag |-> "Err", variant |-> "Protocol",
          expected |-> PACKET_SIZE, actual |-> Len(bytes)]
    ELSE LET buf == SubSeq(bytes, 1, PACKET_SIZE)
         IN  [tag |-> "Ok", packet |-> PacketNew(SequenceNumber(FromLeBytes(buf)))]

\* u64::MAX
U64_MAX == [j \in 1..4 |-> LimbBase - 1]

\* a < b on u64: decided by the most significant limb that differs.
U64Less(a, b) ==
    \E j \in 1..4 : /\ a[j] < b[j]
                    /\ \A k \in (j + 1)..4 : a[k] = b[k]

\* u64::min, u64::max
U64Min(a, b) == IF U64Less(b, a) THEN b ELSE a

U64Max(a, b) == IF U64Less(a, b) THEN b ELSE a

\* Ord::clamp(self, min, max)
U64Clamp(v, lo, hi) == IF U64Less(v, lo) THEN lo
                       ELSE IF U64Less(hi, v) THEN hi
                       ELSE v

\* The number a u64 below 2^31 stands for.
U64ToNat(v) == v[1] + LimbBase * v[2]

(***************************************************************************)
(* Histogram<u64> of the hdrhistogram crate, as Statistics sets it up:     *)
(* new_with_bounds(low, high, sigfig).  A count is kept per range of       *)
(* equivalent values; the ranges double in width with every bucket.        *)
(***************************************************************************)
HISTOGRAM_LOW_BOUND_NS == 100

HISTOGRAM_HIGH_BOUND_NS == 100000000

HISTOGRAM_SIGNIFICANT_DIGITS == 3

\* floor(log2(n)) and ceil(log2(n)) for n in 1..2^30
Log2Floor(n) == CHOOSE k \in 0..30 : 2^k <= n /\ n < 2^(k + 1)

Log2Ceil(n) == CHOOSE k \in 0..30 : n <= 2^k /\ (k = 0 \/ 2^(k - 1) < n)

\* The resolution of the smallest values: 2^unit_magnitude.
UnitMagnitude == Log2Floor(HISTOGRAM_LOW_BOUND_NS)

\* Sub-buckets per bucket: enough for 2 * 10^sigfig values at unit resolution.
SubBucketCount == 2^Log2Ceil(2 * 10^HISTOGRAM_SIGNIFICANT_DIGITS)

\* The bucket a value falls in: the first whose range reaches past it.
BucketIndex(v) ==
    CHOOSE b \in 0..(30 - UnitMagnitude) :
        /\ v < SubBucketCount * 2^(UnitMagnitude + b)
        /\ (b = 0 \/ v >= SubBucketCount * 2^(UnitMagnitude + b - 1))

\* The first value the counts array has no slot for: the bucket ranges
\* double until one reaches past the high bound.
SmallestUntrackable ==
    SubBucketCount * 2^(UnitMagnitude + BucketIndex(HISTOGRAM_HIGH_BOUND_NS))

EquivalentRange(v) == 2^(UnitMagnitude + BucketIndex(v))

LowestEquivalent(v) == (v \div EquivalentRange(v)) * EquivalentRange(v)

HighestEquivalent(v) == LowestEquivalent(v) + EquivalentRange(v) - 1

MedianEquivalent(v) == LowestEquivalent(v) + EquivalentRange(v) \div 2

\* Histogram::new_with_bounds: no counts.
HistogramNew == [counts |-> <<>>, total_count |-> 0]

\* The count kept for the range that starts at lowest.
CountAt(h, lowest) == IF lowest \in DOMAIN h.counts THEN h.counts[lowest] ELSE 0

\* Histogram::record: one more in the value's range, or an error for a
\* value the counts array has no slot for (auto-resize is off).
HistRecord(h, v) ==
    IF v >= SmallestUntrackable
    THEN [tag |-> "Err", e |-> "ValueOutOfRangeResizeDisabled"]
    ELSE [tag |-> "Ok",
          hist |-> [counts |-> [l \in DOMAIN h.counts \cup {LowestEquivalent(v)} |->
                                   CountAt(h, l) + (IF l = LowestEquivalent(v) THEN 1 ELSE 0)],
                    total_count |-> h.total_count + 1]]

\* Histogram::len
HistLen(h) == h.total_count

\* The sum of the counts of the ranges in S.
RECURSIVE SumCounts(_, _)
SumCounts(h, S) ==
    IF S = {} THEN 0
    ELSE LET l == CHOOSE x \in S : TRUE
         IN  h.counts[l] + SumCounts(h, S \ {l})

\* Quantiles are held in thousandths: 999 is 0.999.
QuantileScale == 1000

\* Histogram::value_at_quantile: the quantile is capped at 1, the count to
\* reach is ceil(quantile * total_count) and at least 1, and the answer is
\* the end of the first range at which the running count reaches it (its
\* start for quantile 0); 0 when no range does.
HistValueAtQuantile(h, q) ==
    LET quantile == IF q > QuantileScale THEN QuantileScale ELSE q
        ceil == (quantile * h.total_count + QuantileScale - 1) \div QuantileScale
        count_at_quantile == IF ceil = 0 THEN 1 ELSE ceil
        reached == {l \in DOMAIN h.counts :
                       SumCounts(h, {k \in DOMAIN h.counts : k <= l}) >= count_at_quantile}
    IN  IF reached = {} THEN 0
        ELSE LET value_at_index == CHOOSE l \in reached : \A k \in reached : l <= k
             IN  IF quantile = 0 THEN LowestEquivalent(value_at_index)
                 ELSE HighestEquivalent(value_at_index)

\* The sum of count * median equivalent value over the ranges in S.
RECURSIVE SumValues(_, _)
SumValues(h, S) ==
    IF S = {} THEN 0
    ELSE LET l == CHOOSE x \in S : TRUE
         IN  h.counts[l] * MedianEquivalent(l) + SumValues(h, S \ {l})

\* Histogram::mean, as the fraction num / den: 0 for an empty histogram.
HistMean(h) ==
    IF h.total_count = 0 THEN [num |-> 0, den |-> 1]
    ELSE [num |-> SumValues(h, DOMAIN h.counts), den |-> h.total_count]

(***************************************************************************)
(* State.                                                                  *)
(***************************************************************************)
VARIABLES
    \* --- packet codec harness ---
    original,   \* the packet handed to encode, or None
    wire,       \* the byte string handed to decode
    raw,        \* number of edits (pushes, truncations) made to wire
    decoded     \* the result of decode, or None

VARIABLES
    \* --- the client: configuration ---
    impl,               \* "lib": client/measurement.rs, "bin": bin/client.rs
    platform,           \* "unix" or "windows": the build's target
    warmup_count,
    packet_count,
    \* --- the client: control ---
    phase,              \* "warmup", "measurement" or "exit"
    pc,                 \* "loop": top of the for loop, "recv": blocked in recv
    seq,                \* the loop index
    waited,             \* ticks since t1
    \* --- the client: the phases' locals and results ---
    successful_packets, \* warmup_phase
    warmup_lost,        \* warmup_phase's lost_packets
    latencies,          \* measurement_phase
    lost_packets,       \* measurement_phase
    warmup_result,      \* None until warmup_phase returns
    result,             \* None until measurement_phase returns
    \* --- the network ---
    net,                \* probes sent whose echo has not reached the client
    rxbuf,              \* echoes queued in the client's socket
    faults,             \* transport faults so far
    \* --- history ---
    sentLog,            \* every send call: [ph, sq, ok]
    attempts            \* every attempt that reached its outcome

codecVars == <<original, wire, raw, decoded>>

cfgVars == <<impl, platform, warmup_count, packet_count>>

warmupLocals == <<successful_packets, warmup_lost>>

measurementLocals == <<latencies, lost_packets>>

netVars == <<net, rxbuf, faults>>

engineVars == <<cfgVars, phase, pc, seq, waited, warmupLocals, measurementLocals,
                warmup_result, result, netVars, sentLog, attempts>>

VARIABLES
    \* --- Statistics::new and the report (client/statistics.rs, reporter.rs) ---
    log_debug,          \* whether RUST_LOG enables DEBUG events
    stat_latencies,     \* the slice handed to Statistics::new
    st_pc,              \* "loop", "built", "reported"; "off" when not running
    st_next,            \* index of the next latency of the for loop
    hist,               \* the Histogram<u64>
    real_min,
    real_max,
    clamped_count,
    stats,              \* None until Statistics::new returns
    report,             \* None until print_results returns
    answers,            \* percentile(q) as returned to a caller, by quantile
    \* --- history ---
    recorded,           \* the arguments of hist.record so far
    queries             \* every mean or percentile query on the histogram

statsVars == <<log_debug, stat_latencies, st_pc, st_next, hist, real_min, real_max,
               clamped_count, stats, report, answers, recorded, queries>>

VARIABLES
    \* --- ServerMonitor and ServerCounters (server/monitor.rs) ---
    counters,           \* the three shared AtomicU64
    monitor,            \* ServerMonitor's start_time and update_interval
    now,                \* the clock, in milliseconds
    writers,            \* the threads that hold a ServerCounters handle
    display,            \* the display thread: its position and locals
    shown,              \* the status line last printed, or None
    caller,             \* a thread inside ServerMonitor::stats()
    server_stats,       \* the ServerStats last returned, or None
    \* --- history ---
    tally,              \* what the calls made so far add up to, per counter
    last_call           \* the last call on a handle: counters before and after

monitorVars == <<counters, monitor, now, writers, display, shown, caller,
                 server_stats, tally, last_call>>

VARIABLES
    \* --- what an observer of the monitor writes down ---
    samples,            \* the samples the display thread has taken, in order
    received_at,        \* when the received counter last changed, or None
    horizon,            \* how long the run is observed, in milliseconds
    observing           \* whether the observer writes down what it sees

observerVars == <<samples, received_at, horizon, observing>>

VARIABLES
    \* --- the datagram echo servers (bin/server.rs, synapse/src/bin/server.rs) ---
    variant,            \* which of the two servers runs: "plain" or "session"
    srv,                \* the main thread: its position and locals
    sock,               \* the UDP socket: its connected peer and receive queue
    datagrams,          \* how many datagrams the peers have sent
    srv_faults,         \* how many system calls of the server have failed
    \* --- history ---
    last_echo           \* the datagram the server sent last, or None

serverVars == <<variant, srv, sock, datagrams, srv_faults, last_echo>>

VARIABLES
    \* --- the client's start-up and its stream transport ---
    client,             \* a started client: its configuration and position
    tcp                 \* the stream socket: the peer's bytes and the buffer

clientVars == <<client, tcp>>

\* What the codec's steps, the client's steps, the statistics' steps and
\* the monitor's steps leave alone.
notCodec == <<engineVars, statsVars, monitorVars, observerVars, serverVars, clientVars>>

notEngine == <<codecVars, statsVars, monitorVars, observerVars, serverVars, clientVars>>

notStats == <<codecVars, engineVars, monitorVars, observerVars, serverVars, clientVars>>

notMonitor == <<codecVars, engineVars, statsVars, serverVars, clientVars>>

vars == <<codecVars, engineVars, statsVars, monitorVars, observerVars, serverVars, clientVars>>

(***************************************************************************)
(* The server's counters (server/monitor.rs): three AtomicU64 shared by    *)
(* every ServerCounters handle and the monitor.  The counts of the model   *)
(* stay far below 2^64, where fetch_add would wrap.                        *)
(***************************************************************************)
\* ServerMonitor::new: all three at 0.
NewCounters == [packets_received |-> 0, packets_sent |-> 0, errors |-> 0]

\* fetch_add that adds 1 whatever it is given.
FetchAddOne(value, n) == value + 1

\* AtomicU64::fetch_add(n, Ordering::Relaxed): the new value, in one step.
FetchAdd(value, n) == value + n

\* increment_received as a load and a later store: the value stored is one
\* more than what the counter held before the call made in between.
IncrementReceivedTorn(c) ==
    [c EXCEPT !.packets_received =
        (IF last_call = None THEN @ ELSE last_call.before.packets_received) + 1]

\* ServerCounters::increment_received
IncrementReceived(c) == [c EXCEPT !.packets_received = FetchAdd(@, 1)]

\* ServerCounters::increment_sent
IncrementSent(c) == [c EXCEPT !.packets_sent = FetchAdd(@, 1)]

\* increment_error that also counts a packet as received.
IncrementErrorAndReceived(c) ==
    [c EXCEPT !.errors = FetchAdd(@, 1), !.packets_received = FetchAdd(@, 1)]

\* ServerCounters::increment_error
IncrementError(c) == [c EXCEPT !.errors = FetchAdd(@, 1)]

\* ServerCounters::add_received(n), as the server loop calls it.
AddReceived(c, n) == [c EXCEPT !.packets_received = FetchAdd(@, n)]

\* ServerCounters::add_sent(n), as the server loop calls it.
AddSent(c, n) == [c EXCEPT !.packets_sent = FetchAdd(@, n)]

(***************************************************************************)
(* The packet codec, driven on bounded inputs.                             *)
(***************************************************************************)
ByteSamples == {0, 1, 255}

\* The codec's harness: nothing encoded or decoded yet.  The client is
\* not running.
InitCodec ==
    /\ original = None
    /\ wire = <<>>
    /\ raw = 0
    /\ decoded = None
    /\ impl = "lib"
    /\ platform = "unix"
    /\ warmup_count = 0
    /\ packet_count = 0
    /\ phase = "exit"
    /\ pc = "loop"
    /\ seq = 0
    /\ waited = 0
    /\ successful_packets = 0
    /\ warmup_lost = 0
    /\ latencies = <<>>
    /\ lost_packets = 0
    /\ warmup_result = None
    /\ result = None
    /\ net = {}
    /\ rxbuf = <<>>
    /\ faults = 0
    /\ sentLog = <<>>
    /\ attempts = <<>>
    /\ log_debug = FALSE
    /\ stat_latencies = <<>>
    /\ st_pc = "off"
    /\ st_next = 1
    /\ hist = HistogramNew
    /\ real_min = U64_MAX
    /\ real_max = U64FromNat(0)
    /\ clamped_count = 0
    /\ stats = None
    /\ report = None
    /\ answers = <<>>
    /\ recorded = <<>>
    /\ queries = <<>>
    /\ counters = NewCounters
    /\ monitor = [start_time |-> 0, update_interval |-> 0]
    /\ now = 0
    /\ writers = <<>>
    /\ display = [pc |-> "off"]
    /\ shown = None
    /\ caller = [pc |-> "off"]
    /\ server_stats = None
    /\ tally = NewCounters
    /\ last_call = None
    /\ samples = <<>>
    /\ received_at = None
    /\ horizon = 0
    /\ observing = FALSE
    /\ variant = "plain"
    /\ srv = [pc |-> "off"]
    /\ sock = [peer |-> NoPeer, queue |-> <<>>]
    /\ datagrams = 0
    /\ srv_faults = 0
    /\ last_echo = None
    /\ client = [pc |-> "off"]
    /\ tcp = [pc |-> "off"]

\* Packet::new(s).encode()
CodecEncode ==
    /\ decoded = None /\ original = None /\ wire = <<>>
    /\ \E v \in U64Samples :
         /\ original' = PacketNew(SequenceNumber(v))
         /\ wire' = Encode(PacketNew(SequenceNumber(v)))
    /\ UNCHANGED <<raw, decoded, notCodec>>

\* The caller's input grows by one arbitrary byte: a raw input is built
\* byte by byte, an encoding gets trailing bytes.
CodecPush ==
    /\ decoded = None /\ Len(wire) < MaxBytes
    /\ original = None \/ Len(wire) >= PACKET_SIZE
    /\ \E b \in ByteSamples : wire' = Append(wire, b)
    /\ raw' = raw + 1
    /\ UNCHANGED <<original, decoded, notCodec>>

\* An encoding loses its last byte: a short read of a packet.
CodecTruncate ==
    /\ decoded = None /\ original # None
    /\ Len(wire) > 0 /\ Len(wire) <= PACKET_SIZE
    /\ wire' = SubSeq(wire, 1, Len(wire) - 1)
    /\ raw' = raw + 1
    /\ UNCHANGED <<original, decoded, notCodec>>

\* Packet::decode(&wire)
CodecDecode ==
    /\ decoded = None
    /\ decoded' = Decode(wire)
    /\ UNCHANGED <<original, wire, raw, notCodec>>

NextCodec == CodecEncode \/ CodecPush \/ CodecTruncate \/ CodecDecode

(***************************************************************************)
(* The transport as the client sees it.                                    *)
(***************************************************************************)
Ok8 == [tag |-> "Ok", n |-> PACKET_SIZE]

\* ClientError::Io(e) with e.kind() = kind
IoErr(kind) == [tag |-> "Err", variant |-> "Io", kind |-> kind]

\* What a send can fail with, and what a receive can fail with apart from
\* the expiry of the read timeout.
SendErrorKinds == {"ConnectionRefused", "TimedOut"}

RecvErrorKinds == {"ConnectionRefused", "UnexpectedEof"}

\* The kind of the io::Error a blocked read ends with when the read
\* timeout set by set_read_timeout expires.  The sockets hand the
\* error through unchanged (map_err(ClientError::Io)), and the kind is
\* the platform's: WouldBlock on Unix, TimedOut on Windows.
ExpiryKind(target) == IF target = "windows" THEN "TimedOut" ELSE "WouldBlock"

\* NetworkSocket::recv_packet on the payload that arrived.
RecvPacket(bytes) == Decode(bytes)

\* UdpSocket::recv into the 8-byte recv_buf: the length read, and the bytes.
UdpRecv(bytes) ==
    LET len == IF Len(bytes) < PACKET_SIZE THEN Len(bytes) ELSE PACKET_SIZE
    IN  [tag |-> "Ok", len |-> len, buf |-> SubSeq(bytes, 1, len)]

(***************************************************************************)
(* measure_single_packet (client/measurement.rs).                          *)
(***************************************************************************)
OkSome(latency_ns) == [tag |-> "OkSome", latency_ns |-> latency_ns]

OkNone == [tag |-> "OkNone"]

Err(e) == [tag |-> "Err", e |-> e]

\* `socket.send_packet(&packet)?`
MeasureSend(sent) == IF sent.tag = "Ok" THEN None ELSE Err(sent)

\* A match that takes whatever packet arrives for the echo.
MeasureRecvNoCheck(received, sequence, latency_ns) ==
    IF received.tag = "Ok"
    THEN OkSome(latency_ns)
    ELSE IF received.variant = "Io" /\ received.kind = "TimedOut"
         THEN OkNone
         ELSE Err(received)

\* A match that takes no packet for the echo.
MeasureRecvNoEcho(received, sequence, latency_ns) ==
    IF received.tag = "Ok"
    THEN OkNone
    ELSE IF received.variant = "Io" /\ received.kind = "TimedOut"
         THEN OkNone
         ELSE Err(received)

\* The match on recv_packet's result.
MeasureRecv(received, sequence, latency_ns) ==
    IF received.tag = "Ok"
    THEN IF received.packet.sequence = sequence
         THEN OkSome(latency_ns)
         ELSE OkNone
    ELSE IF received.variant = "Io" /\ received.kind = "TimedOut"
         THEN OkNone
         ELSE Err(received)

\* ClientError::Measurement("... interrupted after {} packets ({} successful,
\* {} lost): {}")
MeasurementError(ph, actual_packets, successful, lost, e) ==
    [tag |-> "Err", variant |-> "Measurement", phase |-> ph,
     processed |-> actual_packets, successful |-> successful, lost |-> lost,
     source |-> e]

\* warmup_phase: the match on measure_single_packet's result.
WarmupMatch(out, successful, lost) ==
    IF out.tag = "OkSome"
    THEN [successful |-> successful + 1, lost |-> lost, ret |-> None]
    ELSE IF out.tag = "OkNone"
    THEN [successful |-> successful, lost |-> lost + 1, ret |-> None]
    ELSE [successful |-> successful, lost |-> lost,
          ret |-> MeasurementError("warmup", successful + lost, successful,
                                   lost, out.e)]

\* A match that forgets to count a loss.
MeasurementMatchDropsLoss(out, lats, lost) ==
    IF out.tag = "OkSome"
    THEN [latencies |-> Append(lats, out.latency_ns), lost |-> lost, ret |-> None]
    ELSE IF out.tag = "OkNone"
    THEN [latencies |-> lats, lost |-> lost, ret |-> None]
    ELSE [latencies |-> lats, lost |-> lost,
          ret |-> MeasurementError("measurement", Len(lats) + lost, Len(lats),
                                   lost, out.e)]

\* A match that counts the interrupted attempt among the processed ones.
MeasurementMatchCountsFailed(out, lats, lost) ==
    IF out.tag = "OkSome"
    THEN [latencies |-> Append(lats, out.latency_ns), lost |-> lost, ret |-> None]
    ELSE IF out.tag = "OkNone"
    THEN [latencies |-> lats, lost |-> lost + 1, ret |-> None]
    ELSE [latencies |-> lats, lost |-> lost,
          ret |-> MeasurementError("measurement", Len(lats) + lost + 1,
                                   Len(lats), lost, out.e)]

\* measurement_phase: the match on measure_single_packet's result.
MeasurementMatch(out, lats, lost) ==
    IF out.tag = "OkSome"
    THEN [latencies |-> Append(lats, out.latency_ns), lost |-> lost, ret |-> None]
    ELSE IF out.tag = "OkNone"
    THEN [latencies |-> lats, lost |-> lost + 1, ret |-> None]
    ELSE [latencies |-> lats, lost |-> lost,
          ret |-> MeasurementError("measurement", Len(lats) + lost, Len(lats),
                                   lost, out.e)]

\* measurement_phase: Ok(MeasurementResult { .. })
MeasurementResult(lats, lost, count) ==
    [tag |-> "Ok", latencies |-> lats, lost_packets |-> lost,
     total_packets |-> count]

(***************************************************************************)
(* bin/client.rs: measurement_phase over the UdpSocket.                    *)
(***************************************************************************)
\* `if socket.send(&send_buf).is_err() { lost_packets += 1; continue; }`
BinSendFailed(lats, lost) == [latencies |-> lats, lost |-> lost + 1]

\* The match on socket.recv's result.
BinRecvMatch(received, sq, latency_ns, lats, lost) ==
    IF received.tag = "Ok"
    THEN IF received.len >= 8
         THEN IF FromLeBytes(received.buf) = sq
              THEN [latencies |-> Append(lats, latency_ns), lost |-> lost]
              ELSE [latencies |-> lats, lost |-> lost + 1]
         ELSE [latencies |-> lats, lost |-> lost + 1]
    ELSE [latencies |-> lats, lost |-> lost + 1]

(***************************************************************************)
(* The client's run: a warmup phase, then a measurement phase, on one      *)
(* socket.                                                                 *)
(***************************************************************************)
Impls == {"lib", "bin"}

Targets == {"unix", "windows"}

InitEngine ==
    /\ impl \in Impls
    /\ platform \in Targets
    /\ warmup_count \in 0..MaxAttempts
    /\ packet_count \in 0..MaxAttempts
    /\ warmup_count + packet_count <= MaxAttempts
    /\ phase = "warmup"
    /\ pc = "loop"
    /\ seq = 0
    /\ waited = 0
    /\ successful_packets = 0
    /\ warmup_lost = 0
    /\ latencies = <<>>
    /\ lost_packets = 0
    /\ warmup_result = None
    /\ result = None
    /\ net = {}
    /\ rxbuf = <<>>
    /\ faults = 0
    /\ sentLog = <<>>
    /\ attempts = <<>>
    /\ original = None
    /\ wire = <<>>
    /\ raw = 0
    /\ decoded = None
    /\ log_debug = FALSE
    /\ stat_latencies = <<>>
    /\ st_pc = "off"
    /\ st_next = 1
    /\ hist = HistogramNew
    /\ real_min = U64_MAX
    /\ real_max = U64FromNat(0)
    /\ clamped_count = 0
    /\ stats = None
    /\ report = None
    /\ answers = <<>>
    /\ recorded = <<>>
    /\ queries = <<>>
    /\ counters = NewCounters
    /\ monitor = [start_time |-> 0, update_interval |-> 0]
    /\ now = 0
    /\ writers = <<>>
    /\ display = [pc |-> "off"]
    /\ shown = None
    /\ caller = [pc |-> "off"]
    /\ server_stats = None
    /\ tally = NewCounters
    /\ last_call = None
    /\ samples = <<>>
    /\ received_at = None
    /\ horizon = 0
    /\ observing = FALSE
    /\ variant = "plain"
    /\ srv = [pc |-> "off"]
    /\ sock = [peer |-> NoPeer, queue |-> <<>>]
    /\ datagrams = 0
    /\ srv_faults = 0
    /\ last_echo = None
    /\ client = [pc |-> "off"]
    /\ tcp = [pc |-> "off"]

\* The number of sequence numbers of the phase that is running.
Count == IF phase = "warmup" THEN warmup_count ELSE packet_count

\* SequenceNumber(seq as u64)
Sequence == SequenceNumber(U64FromNat(seq))

\* The probe of the attempt that is running, as it travels to the peer and
\* back: the echo server returns the bytes it got.
Probe == [ph |-> phase, sq |-> seq, bytes |-> Encode(PacketNew(Sequence))]

\* What ended the attempt: a record of the environment's part in it.
Event(event, kind, msg) == [event |-> event, kind |-> kind, msg |-> msg]

\* The history keeps what the phase did with the attempt: how many
\* successes and losses it added, the latency it recorded, and whether it
\* returned an error.
Logged(ev, succ, lost, latency, aborted) ==
    attempts' = Append(attempts,
                       [ph |-> phase, sq |-> seq, event |-> ev.event,
                        kind |-> ev.kind, msg |-> ev.msg,
                        succ |-> succ, lost |-> lost, latency |-> latency,
                        aborted |-> aborted])

\* A loop step that skips a sequence number.
AdvanceSkips == seq' = seq + 2 /\ pc' = "loop" /\ phase' = phase

\* The for loop's step to the next sequence number.
Advance == seq' = seq + 1 /\ pc' = "loop" /\ phase' = phase

\* A phase returns early and the client stops.
Exit == seq' = seq /\ pc' = "loop" /\ phase' = "exit"

\* warmup_phase and bin's warmup_phase: the spinner, every 10 packets, ends
\* in io::stdout().flush(), whose failure `failure` ends the phase.
Spinner(failure) ==
    IF seq % 10 = 0
    THEN \E flushed \in BOOLEAN :
            IF flushed
            THEN Advance /\ UNCHANGED warmup_result
            ELSE Exit /\ warmup_result' = failure
    ELSE Advance /\ UNCHANGED warmup_result

\* The library's phases on measure_single_packet's result `out`.
LibFinish(out, ev) ==
    /\ impl = "lib"
    /\ waited' = 0
    /\ IF phase = "warmup"
       THEN LET m == WarmupMatch(out, successful_packets, warmup_lost)
            IN  /\ successful_packets' = m.successful
                /\ warmup_lost' = m.lost
                /\ Logged(ev, m.successful - successful_packets,
                          m.lost - warmup_lost, None, m.ret # None)
                /\ UNCHANGED <<measurementLocals, result>>
                /\ IF m.ret # None
                   THEN Exit /\ warmup_result' = m.ret
                   ELSE Spinner(IoErr("BrokenPipe"))
       ELSE LET m == MeasurementMatch(out, latencies, lost_packets)
            IN  /\ latencies' = m.latencies
                /\ lost_packets' = m.lost
                /\ Logged(ev, Len(m.latencies) - Len(latencies),
                          m.lost - lost_packets,
                          IF Len(m.latencies) > Len(latencies)
                          THEN m.latencies[Len(m.latencies)] ELSE None,
                          m.ret # None)
                /\ UNCHANGED <<warmupLocals, warmup_result>>
                /\ IF m.ret # None
                   THEN Exit /\ result' = m.ret
                   ELSE Advance /\ UNCHANGED result

\* bin's warmup_phase: whatever the attempt gave is discarded.
BinFinishWarmup(ev) ==
    /\ impl = "bin" /\ phase = "warmup"
    /\ waited' = 0
    /\ Logged(ev, 0, 0, None, FALSE)
    /\ UNCHANGED <<warmupLocals, measurementLocals, result>>
    /\ Spinner([tag |-> "Panic"])

\* bin's measurement_phase with its locals updated to `upd`.
BinFinishMeasurement(upd, ev) ==
    /\ impl = "bin" /\ phase = "measurement"
    /\ waited' = 0
    /\ Logged(ev, Len(upd.latencies) - Len(latencies), upd.lost - lost_packets,
              IF Len(upd.latencies) > Len(latencies)
              THEN upd.latencies[Len(upd.latencies)] ELSE None,
              FALSE)
    /\ latencies' = upd.latencies
    /\ lost_packets' = upd.lost
    /\ UNCHANGED <<warmupLocals, warmup_result, result>>
    /\ Advance

\* The attempt ends on what recv gave: the library reads it through
\* NetworkSocket::recv_packet, the binary through UdpSocket::recv.
Finish(libReceived, binReceived, ev) ==
    IF impl = "lib"
    THEN LibFinish(MeasureRecv(libReceived, Sequence, waited), ev)
    ELSE IF phase = "warmup"
    THEN BinFinishWarmup(ev)
    ELSE BinFinishMeasurement(
             BinRecvMatch(binReceived, U64FromNat(seq), waited, latencies,
                          lost_packets), ev)

(***************************************************************************)
(* The client's steps.                                                     *)
(***************************************************************************)
\* Top of the loop: t1 is taken and the probe is sent.
ClientSend ==
    /\ phase # "exit" /\ pc = "loop" /\ seq < Count
    /\ \E sent \in {Ok8} \cup {IoErr(k) : k \in SendErrorKinds} :
         /\ sent.tag = "Ok" \/ faults < MaxFaults
         /\ faults' = IF sent.tag = "Ok" THEN faults ELSE faults + 1
         /\ sentLog' = Append(sentLog, [ph |-> phase, sq |-> seq,
                                        ok |-> sent.tag = "Ok"])
         /\ IF sent.tag = "Ok"
            THEN /\ net' = net \cup {Probe}
                 /\ pc' = "recv"
                 /\ waited' = 0
                 /\ UNCHANGED <<phase, seq, warmupLocals, measurementLocals,
                                warmup_result, result, attempts>>
            ELSE /\ net' = net
                 /\ IF impl = "lib"
                    THEN LibFinish(MeasureSend(sent), Event("sendfail", sent.kind, None))
                    ELSE IF phase = "warmup"
                    THEN BinFinishWarmup(Event("sendfail", sent.kind, None))
                    ELSE BinFinishMeasurement(BinSendFailed(latencies, lost_packets),
                                              Event("sendfail", sent.kind, None))
    /\ UNCHANGED <<notEngine, cfgVars, rxbuf>>

\* recv returns the datagram at the head of the socket's queue.
ClientRecvPacket ==
    /\ phase # "exit" /\ pc = "recv" /\ rxbuf # <<>>
    /\ LET msg == Head(rxbuf)
       IN  Finish(RecvPacket(msg.bytes), UdpRecv(msg.bytes),
                  Event("packet", "-", msg))
    /\ rxbuf' = Tail(rxbuf)
    /\ UNCHANGED <<notEngine, cfgVars, net, faults, sentLog>>

\* Nothing arrived within the read timeout: recv ends with the platform's
\* error for an expired timeout.
ClientRecvExpiry ==
    /\ phase # "exit" /\ pc = "recv" /\ rxbuf = <<>> /\ waited = TimeoutTicks
    /\ Finish(IoErr(ExpiryKind(platform)), IoErr(ExpiryKind(platform)),
              Event("expiry", ExpiryKind(platform), None))
    /\ UNCHANGED <<notEngine, cfgVars, netVars, sentLog>>

\* recv fails for another reason: the peer closed or refused.
ClientRecvIoError ==
    /\ phase # "exit" /\ pc = "recv" /\ faults < MaxFaults
    /\ \E k \in RecvErrorKinds :
         Finish(IoErr(k), IoErr(k), Event("ioerror", k, None))
    /\ faults' = faults + 1
    /\ UNCHANGED <<notEngine, cfgVars, net, rxbuf, sentLog>>

\* The client waits in recv.
Tick ==
    /\ phase # "exit" /\ pc = "recv" /\ rxbuf = <<>> /\ waited < TimeoutTicks
    /\ waited' = waited + 1
    /\ UNCHANGED <<notEngine, cfgVars, phase, pc, seq, warmupLocals, measurementLocals,
                   warmup_result, result, netVars, sentLog, attempts>>

\* A measurement phase that starts from the warmup's lost count.
WarmupReturnKeepsLost ==
    /\ phase = "warmup" /\ pc = "loop" /\ seq = warmup_count
    /\ warmup_result' = [tag |-> "Ok"]
    /\ phase' = "measurement"
    /\ seq' = 0
    /\ latencies' = <<>>
    /\ lost_packets' = warmup_lost
    /\ UNCHANGED <<notEngine, cfgVars, pc, waited, warmupLocals, result, netVars, sentLog,
                   attempts>>

\* The warmup loop is over: warmup_phase returns Ok(()) and the caller
\* starts measurement_phase, whose locals start empty.
WarmupReturn ==
    /\ phase = "warmup" /\ pc = "loop" /\ seq = warmup_count
    /\ warmup_result' = [tag |-> "Ok"]
    /\ phase' = "measurement"
    /\ seq' = 0
    /\ latencies' = <<>>
    /\ lost_packets' = 0
    /\ UNCHANGED <<notEngine, cfgVars, pc, waited, warmupLocals, result, netVars, sentLog,
                   attempts>>

\* The measurement loop is over: the phase returns its result.
MeasurementReturn ==
    /\ phase = "measurement" /\ pc = "loop" /\ seq = packet_count
    /\ result' = MeasurementResult(latencies, lost_packets, packet_count)
    /\ phase' = "exit"
    /\ UNCHANGED <<notEngine, cfgVars, pc, seq, waited, warmupLocals, measurementLocals,
                   warmup_result, netVars, sentLog, attempts>>

(***************************************************************************)
(* The network and the peer.  A probe that is never delivered is lost.     *)
(***************************************************************************)
\* An echo reaches the client's socket, in any order.
NetDeliver ==
    /\ phase # "exit"
    /\ \E m \in net :
         /\ net' = net \ {m}
         /\ rxbuf' = Append(rxbuf, m)
    /\ UNCHANGED <<notEngine, cfgVars, phase, pc, seq, waited, warmupLocals,
                   measurementLocals, warmup_result, result, faults, sentLog,
                   attempts>>

\* The peer answers with fewer than 8 bytes.
NetShort ==
    /\ phase # "exit" /\ faults < MaxFaults
    /\ \E m \in net :
         /\ Len(m.bytes) = PACKET_SIZE
         /\ net' = (net \ {m}) \cup {[m EXCEPT !.bytes = SubSeq(m.bytes, 1, 4)]}
    /\ faults' = faults + 1
    /\ UNCHANGED <<notEngine, cfgVars, phase, pc, seq, waited, warmupLocals,
                   measurementLocals, warmup_result, result, rxbuf, sentLog,
                   attempts>>

NextEngine ==
    \/ ClientSend
    \/ ClientRecvPacket
    \/ ClientRecvExpiry
    \/ ClientRecvIoError
    \/ Tick
    \/ WarmupReturn
    \/ MeasurementReturn
    \/ NetDeliver
    \/ NetShort

(***************************************************************************)
(* Statistics (client/statistics.rs) and the report made from them         *)
(* (client/reporter.rs), driven on bounded latency slices.                 *)
(***************************************************************************)
\* The latencies the inputs are drawn from: both sides of either histogram
\* bound, the ends of the u64 range, and a value above 2^32 whose low limbs
\* are small.
LatencySamples ==
    { U64FromNat(0), U64FromNat(HISTOGRAM_LOW_BOUND_NS - 1),
      U64FromNat(HISTOGRAM_LOW_BOUND_NS), U64FromNat(200000),
      U64FromNat(HISTOGRAM_HIGH_BOUND_NS), U64FromNat(HISTOGRAM_HIGH_BOUND_NS + 1),
      <<5, 0, 1, 0>>, U64_MAX }

\* The quantiles a caller asks for besides the report's: 0, the median, 1.
Quantiles == {0, 500, 1000}

\* latency.clamp(LOW, HIGH) with the low bound forgotten.
ClampedHighOnly(latency) ==
    IF U64Less(U64FromNat(HISTOGRAM_HIGH_BOUND_NS), latency)
    THEN U64FromNat(HISTOGRAM_HIGH_BOUND_NS)
    ELSE latency

\* latency.clamp(HISTOGRAM_LOW_BOUND_NS, HISTOGRAM_HIGH_BOUND_NS)
Clamped(latency) ==
    U64Clamp(latency, U64FromNat(HISTOGRAM_LOW_BOUND_NS),
             U64FromNat(HISTOGRAM_HIGH_BOUND_NS))

\* The reported minimum without the test for the initial value.
ReportedMinRaw(min) == min

\* real_min as stored in the result: the initial u64::MAX becomes 0.
ReportedMin(min) == IF min = U64_MAX THEN U64FromNat(0) ELSE min

\* Statistics::percentile asked for the complementary quantile.
PercentileComplement(st, q) == HistValueAtQuantile(st.hist, QuantileScale - q)

\* Statistics::mean, ::min, ::max, ::percentile, ::clamped_count, ::count
Mean(st) == HistMean(st.hist)

Min(st) == st.real_min

Max(st) == st.real_max

Percentile(st, q) == HistValueAtQuantile(st.hist, q)

ClampedCount(st) == st.clamped_count

StatCount(st) == HistLen(st.hist)

\* One query of the histogram's mean or of a quantile, as history.
Query(op, by, st) == [op |-> op, by |-> by, count |-> StatCount(st)]

\* Statistics::new(&latencies) is called.
InitStats ==
    /\ log_debug \in BOOLEAN
    /\ stat_latencies \in UNION {[1..n -> LatencySamples] : n \in 0..MaxSamples}
    /\ st_pc = "loop"
    /\ st_next = 1
    /\ hist = HistogramNew
    /\ real_min = U64_MAX
    /\ real_max = U64FromNat(0)
    /\ clamped_count = 0
    /\ stats = None
    /\ report = None
    /\ answers = <<>>
    /\ recorded = <<>>
    /\ queries = <<>>
    /\ original = None
    /\ wire = <<>>
    /\ raw = 0
    /\ decoded = None
    /\ impl = "lib"
    /\ platform = "unix"
    /\ warmup_count = 0
    /\ packet_count = 0
    /\ phase = "exit"
    /\ pc = "loop"
    /\ seq = 0
    /\ waited = 0
    /\ successful_packets = 0
    /\ warmup_lost = 0
    /\ latencies = <<>>
    /\ lost_packets = 0
    /\ warmup_result = None
    /\ result = None
    /\ net = {}
    /\ rxbuf = <<>>
    /\ faults = 0
    /\ sentLog = <<>>
    /\ attempts = <<>>
    /\ counters = NewCounters
    /\ monitor = [start_time |-> 0, update_interval |-> 0]
    /\ now = 0
    /\ writers = <<>>
    /\ display = [pc |-> "off"]
    /\ shown = None
    /\ caller = [pc |-> "off"]
    /\ server_stats = None
    /\ tally = NewCounters
    /\ last_call = None
    /\ samples = <<>>
    /\ received_at = None
    /\ horizon = 0
    /\ observing = FALSE
    /\ variant = "plain"
    /\ srv = [pc |-> "off"]
    /\ sock = [peer |-> NoPeer, queue |-> <<>>]
    /\ datagrams = 0
    /\ srv_faults = 0
    /\ last_echo = None
    /\ client = [pc |-> "off"]
    /\ tcp = [pc |-> "off"]

\* One iteration of `for &latency in latencies`.
StatsRecord ==
    /\ st_pc = "loop" /\ st_next <= Len(stat_latencies)
    /\ LET latency == stat_latencies[st_next]
           clamped == Clamped(latency)
           rec == HistRecord(hist, U64ToNat(clamped))
       IN  /\ real_min' = U64Min(real_min, latency)
           /\ real_max' = U64Max(real_max, latency)
           /\ clamped_count' = IF latency # clamped THEN clamped_count + 1
                               ELSE clamped_count
           /\ recorded' = Append(recorded, U64ToNat(clamped))
           /\ IF rec.tag = "Ok"
              THEN /\ hist' = rec.hist
                   /\ st_next' = st_next + 1
                   /\ UNCHANGED <<st_pc, stats>>
              ELSE /\ stats' = [tag |-> "Err", variant |-> "Measurement",
                                msg |-> "Failed to record latency", source |-> rec.e]
                   /\ st_pc' = "built"
                   /\ UNCHANGED <<hist, st_next>>
    /\ UNCHANGED <<log_debug, stat_latencies, report, answers, queries, notStats>>

\* The loop is over: the result is built, the DEBUG event is made (its
\* fields, mean_ns = result.mean() among them, are evaluated only when the
\* event is enabled) and Ok(result) is returned.
StatsReturn ==
    /\ st_pc = "loop" /\ st_next > Len(stat_latencies)
    /\ LET built == [tag |-> "Ok", hist |-> hist, real_min |-> ReportedMin(real_min),
                     real_max |-> real_max, clamped_count |-> clamped_count]
       IN  /\ stats' = built
           /\ queries' = IF log_debug
                         THEN Append(queries, Query("mean", "Statistics::new", built))
                         ELSE queries
    /\ st_pc' = "built"
    /\ UNCHANGED <<log_debug, stat_latencies, st_next, hist, real_min, real_max,
                   clamped_count, report, answers, recorded, notStats>>

\* Reporter::print_results(&stats, ..): the "no data" path for count 0,
\* else the mean and the four percentiles of the full report.
PrintResults ==
    /\ st_pc = "built" /\ stats.tag = "Ok"
    /\ IF StatCount(stats) = 0
       THEN /\ report' = [kind |-> "no_data"]
            /\ UNCHANGED queries
       ELSE /\ report' = [kind |-> "full", mean |-> Mean(stats),
                          min |-> Min(stats), max |-> Max(stats),
                          p50 |-> Percentile(stats, 500), p90 |-> Percentile(stats, 900),
                          p99 |-> Percentile(stats, 990), p999 |-> Percentile(stats, 999),
                          clamped |-> ClampedCount(stats)]
            /\ queries' = queries \o
                 << Query("mean", "print_results", stats),
                    Query("percentile", "print_results", stats),
                    Query("percentile", "print_results", stats),
                    Query("percentile", "print_results", stats),
                    Query("percentile", "print_results", stats) >>
    /\ st_pc' = "reported"
    /\ UNCHANGED <<log_debug, stat_latencies, st_next, hist, real_min, real_max,
                   clamped_count, stats, answers, recorded, notStats>>

\* A caller that found samples asks for a percentile.
StatsPercentile ==
    /\ st_pc \in {"built", "reported"} /\ stats.tag = "Ok"
    /\ StatCount(stats) > 0
    /\ \E q \in Quantiles \ DOMAIN answers :
         /\ answers' = [x \in DOMAIN answers \cup {q} |->
                           IF x = q THEN Percentile(stats, q) ELSE answers[x]]
         /\ queries' = Append(queries, Query("percentile", "caller", stats))
    /\ UNCHANGED <<log_debug, stat_latencies, st_pc, st_next, hist, real_min, real_max,
                   clamped_count, stats, report, recorded, notStats>>

NextStats == StatsRecord \/ StatsReturn \/ PrintResults \/ StatsPercentile

(***************************************************************************)
(* The monitor (server/monitor.rs): threads that count through a           *)
(* ServerCounters handle, the display thread, and callers of stats().      *)
(***************************************************************************)
IDLE_THRESHOLD_MS == 150

BLINK_INTERVAL_MS == 200

\* The clock advances in steps of this many milliseconds.
ClockStepMs == 50

\* update_interval_ms as handed to ServerMonitor::new.
UpdateIntervals == {100}

\* The update intervals the display thread is watched with: one that
\* divides the blink interval and one that is longer than it.
DisplayIntervals == {100, 250}

\* The operations of a handle.
Ops == {"increment_received", "increment_sent", "increment_error",
        "add_received", "add_sent"}

\* The batch counts add_received and add_sent are called with.
BatchSizes == {0, 2}

\* The amounts a call of op is made with.
Amounts(op) == IF op \in {"add_received", "add_sent"} THEN BatchSizes ELSE {1}

\* One call of op on a handle whose counters hold c.
Call(op, c, n) ==
    CASE op = "increment_received" -> IncrementReceived(c)
      [] op = "increment_sent"     -> IncrementSent(c)
      [] op = "increment_error"    -> IncrementError(c)
      [] op = "add_received"       -> AddReceived(c, n)
      [] op = "add_sent"           -> AddSent(c, n)

\* What a call of op with amount n is to add to each counter.
Tallied(op, t, n) ==
    [packets_received |-> t.packets_received
                          + (IF op \in {"increment_received", "add_received"} THEN n ELSE 0),
     packets_sent |-> t.packets_sent
                      + (IF op \in {"increment_sent", "add_sent"} THEN n ELSE 0),
     errors |-> t.errors + (IF op = "increment_error" THEN n ELSE 0)]

RECURSIVE CallsMadeBy(_)
CallsMadeBy(W) ==
    IF W = {} THEN 0
    ELSE LET w == CHOOSE x \in W : TRUE
         IN  writers[w].made + CallsMadeBy(W \ {w})

\* The calls made on handles so far.
CallsMade == CallsMadeBy(DOMAIN writers)

\* received.saturating_sub(last_received)
SaturatingSub(a, b) == IF a >= b THEN a - b ELSE 0

\* ServerMonitor::render_indicator
RenderIndicator(is_idle, blink_state) ==
    IF is_idle THEN "gray"
    ELSE IF blink_state THEN "red filled"
    ELSE "red light"

\* A server is called idle on a flat counter alone, whatever the time.
IsIdleWhenFlat(recent_received, time_since_last_packet) == recent_received = 0

\* A server is called idle only once the threshold has been exceeded.
IsIdleStrict(recent_received, time_since_last_packet) ==
    recent_received = 0 /\ time_since_last_packet > IDLE_THRESHOLD_MS

\* is_idle: no new packet in this sample and none seen for the threshold.
IsIdle(recent_received, time_since_last_packet) ==
    recent_received = 0 /\ time_since_last_packet >= IDLE_THRESHOLD_MS

\* The operations a thread's next call may be: the one its script names,
\* or any for the script "any".
Scripted(script) == IF script = "any" THEN Ops ELSE {script}

\* ServerMonitor::new(update_interval_ms), counters() handed to the server's
\* main thread, which makes up to MaxCalls calls of any operation, and
\* start_display().
InitMonitor ==
    /\ counters = NewCounters
    /\ monitor \in [start_time : {0}, update_interval : UpdateIntervals]
    /\ now = 0
    /\ writers = [w \in 1..1 |-> [script |-> "any", calls |-> MaxCalls, made |-> 0]]
    /\ display = [pc |-> "sleep", last_sample |-> 0, received |-> 0, sent |-> 0,
                  last_received |-> 0, last_packet_time |-> 0, blink_state |-> FALSE,
                  last_blink_time |-> 0]
    /\ shown = None
    /\ caller = [pc |-> "idle", elapsed |-> 0, received |-> 0, sent |-> 0, calls |-> 0]
    /\ server_stats = None
    /\ tally = NewCounters
    /\ last_call = None
    /\ samples = <<>>
    /\ received_at = None
    /\ horizon = MaxClockTicks * ClockStepMs
    /\ observing = FALSE
    /\ variant = "plain"
    /\ srv = [pc |-> "off"]
    /\ sock = [peer |-> NoPeer, queue |-> <<>>]
    /\ datagrams = 0
    /\ srv_faults = 0
    /\ last_echo = None
    /\ client = [pc |-> "off"]
    /\ tcp = [pc |-> "off"]
    /\ original = None
    /\ wire = <<>>
    /\ raw = 0
    /\ decoded = None
    /\ impl = "lib"
    /\ platform = "unix"
    /\ warmup_count = 0
    /\ packet_count = 0
    /\ phase = "exit"
    /\ pc = "loop"
    /\ seq = 0
    /\ waited = 0
    /\ successful_packets = 0
    /\ warmup_lost = 0
    /\ latencies = <<>>
    /\ lost_packets = 0
    /\ warmup_result = None
    /\ result = None
    /\ net = {}
    /\ rxbuf = <<>>
    /\ faults = 0
    /\ sentLog = <<>>
    /\ attempts = <<>>
    /\ log_debug = FALSE
    /\ stat_latencies = <<>>
    /\ st_pc = "off"
    /\ st_next = 1
    /\ hist = HistogramNew
    /\ real_min = U64_MAX
    /\ real_max = U64FromNat(0)
    /\ clamped_count = 0
    /\ stats = None
    /\ report = None
    /\ answers = <<>>
    /\ recorded = <<>>
    /\ queries = <<>>

\* ServerMonitor::new(100) and counters(), shared by Threads threads that
\* each call increment_received CallsPerThread times; no display thread.
InitThreads ==
    /\ counters = NewCounters
    /\ monitor = [start_time |-> 0, update_interval |-> 100]
    /\ now = 0
    /\ writers = [w \in 1..Threads |->
                     [script |-> "increment_received", calls |-> CallsPerThread,
                      made |-> 0]]
    /\ display = [pc |-> "off"]
    /\ shown = None
    /\ caller = [pc |-> "idle", elapsed |-> 0, received |-> 0, sent |-> 0, calls |-> 0]
    /\ server_stats = None
    /\ tally = NewCounters
    /\ last_call = None
    /\ samples = <<>>
    /\ received_at = None
    /\ horizon = 0
    /\ observing = FALSE
    /\ variant = "plain"
    /\ srv = [pc |-> "off"]
    /\ sock = [peer |-> NoPeer, queue |-> <<>>]
    /\ datagrams = 0
    /\ srv_faults = 0
    /\ last_echo = None
    /\ client = [pc |-> "off"]
    /\ tcp = [pc |-> "off"]
    /\ original = None
    /\ wire = <<>>
    /\ raw = 0
    /\ decoded = None
    /\ impl = "lib"
    /\ platform = "unix"
    /\ warmup_count = 0
    /\ packet_count = 0
    /\ phase = "exit"
    /\ pc = "loop"
    /\ seq = 0
    /\ waited = 0
    /\ successful_packets = 0
    /\ warmup_lost = 0
    /\ latencies = <<>>
    /\ lost_packets = 0
    /\ warmup_result = None
    /\ result = None
    /\ net = {}
    /\ rxbuf = <<>>
    /\ faults = 0
    /\ sentLog = <<>>
    /\ attempts = <<>>
    /\ log_debug = FALSE
    /\ stat_latencies = <<>>
    /\ st_pc = "off"
    /\ st_next = 1
    /\ hist = HistogramNew
    /\ real_min = U64_MAX
    /\ real_max = U64FromNat(0)
    /\ clamped_count = 0
    /\ stats = None
    /\ report = None
    /\ answers = <<>>
    /\ recorded = <<>>
    /\ queries = <<>>

\* ServerMonitor::new(update_interval_ms) with start_display(), watched for
\* MaxDisplayTicks clock steps while one thread counts up to MaxPackets
\* received packets; stats() is not called.
InitDisplay ==
    /\ counters = NewCounters
    /\ monitor \in [start_time : {0}, update_interval : DisplayIntervals]
    /\ now = 0
    /\ writers = [w \in 1..1 |->
                     [script |-> "increment_received", calls |-> MaxPackets,
                      made |-> 0]]
    /\ display = [pc |-> "sleep", last_sample |-> 0, received |-> 0, sent |-> 0,
                  last_received |-> 0, last_packet_time |-> 0, blink_state |-> FALSE,
                  last_blink_time |-> 0]
    /\ shown = None
    /\ caller = [pc |-> "off"]
    /\ server_stats = None
    /\ tally = NewCounters
    /\ last_call = None
    /\ samples = <<>>
    /\ received_at = None
    /\ horizon = MaxDisplayTicks * ClockStepMs
    /\ observing = TRUE
    /\ variant = "plain"
    /\ srv = [pc |-> "off"]
    /\ sock = [peer |-> NoPeer, queue |-> <<>>]
    /\ datagrams = 0
    /\ srv_faults = 0
    /\ last_echo = None
    /\ client = [pc |-> "off"]
    /\ tcp = [pc |-> "off"]
    /\ original = None
    /\ wire = <<>>
    /\ raw = 0
    /\ decoded = None
    /\ impl = "lib"
    /\ platform = "unix"
    /\ warmup_count = 0
    /\ packet_count = 0
    /\ phase = "exit"
    /\ pc = "loop"
    /\ seq = 0
    /\ waited = 0
    /\ successful_packets = 0
    /\ warmup_lost = 0
    /\ latencies = <<>>
    /\ lost_packets = 0
    /\ warmup_result = None
    /\ result = None
    /\ net = {}
    /\ rxbuf = <<>>
    /\ faults = 0
    /\ sentLog = <<>>
    /\ attempts = <<>>
    /\ log_debug = FALSE
    /\ stat_latencies = <<>>
    /\ st_pc = "off"
    /\ st_next = 1
    /\ hist = HistogramNew
    /\ real_min = U64_MAX
    /\ real_max = U64FromNat(0)
    /\ clamped_count = 0
    /\ stats = None
    /\ report = None
    /\ answers = <<>>
    /\ recorded = <<>>
    /\ queries = <<>>

\* A thread makes its next call on its handle.
WriterCall ==
    /\ \E w \in DOMAIN writers :
         /\ writers[w].made < writers[w].calls
         /\ \E op \in Scripted(writers[w].script) : \E n \in Amounts(op) :
              /\ counters' = Call(op, counters, n)
              /\ tally' = Tallied(op, tally, n)
              /\ last_call' = [op |-> op, n |-> n, before |-> counters,
                               after |-> Call(op, counters, n)]
              /\ received_at' = IF observing /\ Call(op, counters, n).packets_received
                                                     # counters.packets_received
                                 THEN [at |-> now] ELSE received_at
         /\ writers' = [writers EXCEPT ![w].made = @ + 1]
    /\ UNCHANGED <<monitor, now, display, shown, caller, server_stats, samples,
                   horizon, observing, notMonitor>>

\* Time passes.
ClockTick ==
    /\ now < horizon
    /\ now' = now + ClockStepMs
    /\ UNCHANGED <<counters, monitor, writers, display, shown, caller, server_stats,
                   tally, last_call, observerVars, notMonitor>>

\* The display thread: thread::sleep(update_interval) has returned (not
\* before the interval has passed) and the received counter is loaded.
DisplayWake ==
    /\ display.pc = "sleep"
    /\ now >= display.last_sample + monitor.update_interval
    /\ display' = [display EXCEPT !.pc = "load_sent",
                                  !.received = counters.packets_received]
    /\ UNCHANGED <<counters, monitor, now, writers, shown, caller, server_stats,
                   tally, last_call, observerVars, notMonitor>>

\* The display thread loads the sent counter.
DisplayLoadSent ==
    /\ display.pc = "load_sent"
    /\ display' = [display EXCEPT !.pc = "load_errors", !.sent = counters.packets_sent]
    /\ UNCHANGED <<counters, monitor, now, writers, shown, caller, server_stats,
                   tally, last_call, observerVars, notMonitor>>

\* The display thread loads the error counter, reads the clock, classifies
\* the server as idle or active, moves the blink state, prints the status
\* line and goes back to sleep.
DisplaySample ==
    /\ display.pc = "load_errors"
    /\ LET error_count == counters.errors
           recent_received == SaturatingSub(display.received, display.last_received)
           time_since_last_packet == now - display.last_packet_time
           is_idle == IsIdle(recent_received, time_since_last_packet)
           toggles == ~is_idle /\ now - display.last_blink_time >= BLINK_INTERVAL_MS
           blink_state == IF is_idle THEN FALSE
                          ELSE IF toggles THEN ~display.blink_state
                          ELSE display.blink_state
       IN  /\ display' = [display EXCEPT
                            !.pc = "sleep",
                            !.last_sample = now,
                            !.last_packet_time = IF recent_received > 0 THEN now ELSE @,
                            !.blink_state = blink_state,
                            !.last_blink_time = IF toggles THEN now ELSE @,
                            !.last_received = display.received]
           /\ shown' = [indicator |-> RenderIndicator(is_idle, blink_state),
                        status |-> IF is_idle THEN "IDLE" ELSE "ACTIVE",
                        received |-> display.received, sent |-> display.sent,
                        errors |-> error_count]
           /\ samples' = IF observing
                         THEN Append(samples, [at |-> now, received |-> display.received,
                                               idle |-> is_idle, blink |-> blink_state,
                                               total |-> counters.packets_received,
                                               flat_since |-> received_at])
                         ELSE samples
    /\ UNCHANGED <<counters, monitor, now, writers, caller, server_stats,
                   tally, last_call, received_at, horizon, observing, notMonitor>>

\* stats() that hands out the totals and starts them again from 0.
StatsCallReturnAndReset ==
    /\ caller.pc = "load_errors"
    /\ server_stats' = [packets_received |-> caller.received, packets_sent |-> caller.sent,
                        errors |-> counters.errors, elapsed |-> caller.elapsed,
                        calls |-> caller.calls]
    /\ counters' = NewCounters
    /\ caller' = [caller EXCEPT !.pc = "idle"]
    /\ UNCHANGED <<monitor, now, writers, display, shown, tally, last_call,
                   observerVars, notMonitor>>

\* ServerMonitor::stats(), called for the final statistics: the elapsed
\* time is taken and the received counter is loaded.
StatsCallBegin ==
    /\ caller.pc = "idle" /\ server_stats = None
    /\ caller' = [pc |-> "load_sent", elapsed |-> now - monitor.start_time,
                  received |-> counters.packets_received, sent |-> 0,
                  calls |-> CallsMade]
    /\ UNCHANGED <<counters, monitor, now, writers, display, shown, server_stats,
                   tally, last_call, observerVars, notMonitor>>

\* stats() loads the sent counter.
StatsCallLoadSent ==
    /\ caller.pc = "load_sent"
    /\ caller' = [caller EXCEPT !.pc = "load_errors", !.sent = counters.packets_sent]
    /\ UNCHANGED <<counters, monitor, now, writers, display, shown, server_stats,
                   tally, last_call, observerVars, notMonitor>>

\* stats() loads the error counter and returns the ServerStats.
StatsCallReturn ==
    /\ caller.pc = "load_errors"
    /\ server_stats' = [packets_received |-> caller.received, packets_sent |-> caller.sent,
                        errors |-> counters.errors, elapsed |-> caller.elapsed,
                        calls |-> caller.calls]
    /\ caller' = [caller EXCEPT !.pc = "idle"]
    /\ UNCHANGED <<counters, monitor, now, writers, display, shown, tally, last_call,
                   observerVars, notMonitor>>

NextMonitor ==
    \/ WriterCall
    \/ ClockTick
    \/ DisplayWake
    \/ DisplayLoadSent
    \/ DisplaySample
    \/ StatsCallBegin
    \/ StatsCallLoadSent
    \/ StatsCallReturn

NextThreads == WriterCall \/ StatsCallBegin \/ StatsCallLoadSent \/ StatsCallReturn

NextDisplay ==
    \/ WriterCall
    \/ ClockTick
    \/ DisplayWake
    \/ DisplayLoadSent
    \/ DisplaySample

(***************************************************************************)
(* The datagram echo servers: synapse/src/bin/server.rs, a plain           *)
(* recv_from/send_to loop, and bin/server.rs, which connects the socket to *)
(* the first peer it hears, batches its counter updates and rebinds the    *)
(* socket after an idle period or a failure.                               *)
(***************************************************************************)
BUF_SIZE == 64

READ_TIMEOUT_MS == 100

BATCH_SIZE == 100

IDLE_DISCONNECT_MS == 200

\* The peers that send datagrams to the server's port.
Peers == {"A", "B"}

\* A payload one byte longer than the receive buffer.
LongPayload == [i \in 1..(BUF_SIZE + 1) |-> i]

\* The payloads the peers send.
ServerPayloads == {<<7>>, LongPayload}

\* &buf[..len] after a receive into buf: the datagram, cut to the buffer
\* (what a Unix receive does with a datagram longer than its buffer).
RecvInto(payload) ==
    SubSeq(payload, 1, IF Len(payload) < BUF_SIZE THEN Len(payload) ELSE BUF_SIZE)

\* UdpSocket::bind(addr): a socket with no peer and nothing queued.
Bound == [peer |-> NoPeer, queue |-> <<>>]

\* The socket queues a datagram of peer p: always while it is unconnected,
\* only from its peer once it is connected.
Accepts(sk, p) == sk.peer = NoPeer \/ sk.peer = p

\* `if batch_received > 0 || batch_sent > 0`
Pending(s) == s.batch_received > 0 \/ s.batch_sent > 0

\* A flush has begun: counters.add_received(batch_received) is done, and
\* counters.add_sent(batch_sent) comes next; `step` is what the flush is
\* part of.
Flushing(s, step) == [s EXCEPT !.pc = "add_sent", !.after = step]

\* The main thread is back at the head of its loop.
AtLoop(s, step) ==
    [s EXCEPT !.pc = "recv", !.recv_at = now, !.last_step = step,
              !.buf = <<>>, !.src = NoPeer, !.arrived = <<>>, !.after = "none"]

\* drop(socket); UdpSocket::bind(addr).expect(..); set_read_timeout(..)
\* .expect(..); connected = false.  Either call may fail, and then the
\* expect panics and the process ends.
Rebind(s, step, ok) ==
    IF ok THEN [AtLoop(s, step) EXCEPT !.connected = FALSE, !.batch_received = 0,
                                       !.batch_sent = 0]
    ELSE [AtLoop(s, step) EXCEPT !.pc = "panicked", !.batch_received = 0,
                                       !.batch_sent = 0]

\* What the rebinding may come to: the two calls succeed, or one fails.
RebindOutcomes == {TRUE, FALSE}

\* What the server's steps leave alone.
notServer == <<codecVars, engineVars, statsVars, monitor, now, writers, display, shown,
               caller, server_stats, last_call, observerVars, variant, clientVars>>

\* The main thread as it enters its loop, bound to its port.
Started ==
    [pc |-> "recv", connected |-> FALSE, batch_received |-> 0,
     batch_sent |-> 0, last_activity |-> 0, recv_at |-> 0, buf |-> <<>>,
     src |-> NoPeer, arrived |-> <<>>, last_step |-> "bind", taken |-> 0,
     echoed |-> 0, after |-> "none"]

\* The main thread in a session with peer A, back in recv after it has
\* received and echoed BATCH_SIZE - 1 datagrams of A without a pause: the
\* batch is one echo short of full and nothing is flushed yet.
MidSession ==
    [Started EXCEPT !.connected = TRUE, !.batch_received = BATCH_SIZE - 1,
                    !.batch_sent = BATCH_SIZE - 1, !.taken = BATCH_SIZE - 1,
                    !.echoed = BATCH_SIZE - 1, !.last_step = "send"]

\* Either server, bound to its port or (the session server) late in a
\* batch, with MaxServerTicks clock steps and MaxDatagrams datagrams of the
\* two peers ahead.
InitServer ==
    /\ variant \in {"plain", "session"}
    /\ srv \in IF variant = "session" THEN {Started, MidSession} ELSE {Started}
    /\ sock = IF srv.connected THEN [peer |-> "A", queue |-> <<>>] ELSE Bound
    /\ datagrams = 0
    /\ srv_faults = 0
    /\ last_echo = IF srv.connected
                   THEN [to |-> "A", payload |-> <<7>>, of |-> "A", arrived |-> <<7>>]
                   ELSE None
    /\ client = [pc |-> "off"]
    /\ tcp = [pc |-> "off"]
    /\ counters = NewCounters
    /\ monitor = [start_time |-> 0, update_interval |-> 100]
    /\ now = 0
    /\ writers = <<>>
    /\ display = [pc |-> "off"]
    /\ shown = None
    /\ caller = [pc |-> "off"]
    /\ server_stats = None
    /\ tally = NewCounters
    /\ last_call = None
    /\ samples = <<>>
    /\ received_at = None
    /\ horizon = MaxServerTicks * ClockStepMs
    /\ observing = FALSE
    /\ original = None
    /\ wire = <<>>
    /\ raw = 0
    /\ decoded = None
    /\ impl = "lib"
    /\ platform = "unix"
    /\ warmup_count = 0
    /\ packet_count = 0
    /\ phase = "exit"
    /\ pc = "loop"
    /\ seq = 0
    /\ waited = 0
    /\ successful_packets = 0
    /\ warmup_lost = 0
    /\ latencies = <<>>
    /\ lost_packets = 0
    /\ warmup_result = None
    /\ result = None
    /\ net = {}
    /\ rxbuf = <<>>
    /\ faults = 0
    /\ sentLog = <<>>
    /\ attempts = <<>>
    /\ log_debug = FALSE
    /\ stat_latencies = <<>>
    /\ st_pc = "off"
    /\ st_next = 1
    /\ hist = HistogramNew
    /\ real_min = U64_MAX
    /\ real_max = U64FromNat(0)
    /\ clamped_count = 0
    /\ stats = None
    /\ report = None
    /\ answers = <<>>
    /\ recorded = <<>>
    /\ queries = <<>>

\* A peer sends a datagram to the server's port; a socket that is connected
\* to another peer, and a process that has ended, do not queue it.
PeerSend ==
    /\ datagrams < MaxDatagrams
    /\ datagrams' = datagrams + 1
    /\ \E p \in Peers : \E payload \in ServerPayloads :
         sock' = IF srv.pc # "panicked" /\ Accepts(sock, p)
                 THEN [sock EXCEPT !.queue = Append(@, [src |-> p, payload |-> payload])]
                 ELSE sock
    /\ UNCHANGED <<srv, srv_faults, last_echo, counters, tally, notServer>>

\* recv_from returns Ok((len, src)) with the datagram at the head of the
\* queue.
ServerRecvFrom ==
    /\ srv.pc = "recv" /\ ~srv.connected
    /\ sock.queue # <<>>
    /\ sock' = [sock EXCEPT !.queue = Tail(@)]
    /\ srv' = [srv EXCEPT !.pc = IF variant = "plain" THEN "send_to" ELSE "connect",
                          !.batch_received = IF variant = "plain" THEN @ ELSE @ + 1,
                          !.last_activity = IF variant = "plain" THEN @ ELSE now,
                          !.buf = RecvInto(Head(sock.queue).payload),
                          !.src = Head(sock.queue).src,
                          !.arrived = Head(sock.queue).payload,
                          !.taken = @ + 1,
                          !.last_step = "recv_from"]
    /\ UNCHANGED <<datagrams, srv_faults, last_echo, counters, tally, notServer>>

\* A receive timeout that is counted as an error.
ServerRecvFromExpiredCounted ==
    /\ variant = "session"
    /\ srv.pc = "recv" /\ ~srv.connected
    /\ sock.queue = <<>>
    /\ now >= srv.recv_at + READ_TIMEOUT_MS
    /\ srv' = AtLoop(srv, "recv_from_expired")
    /\ counters' = IncrementError(counters)
    /\ tally' = IncrementError(tally)
    /\ UNCHANGED <<sock, datagrams, srv_faults, last_echo, notServer>>

\* recv_from returns WouldBlock or TimedOut after the read timeout: the
\* loop goes round.  The plain server sets no timeout.
ServerRecvFromExpired ==
    /\ variant = "session"
    /\ srv.pc = "recv" /\ ~srv.connected
    /\ sock.queue = <<>>
    /\ now >= srv.recv_at + READ_TIMEOUT_MS
    /\ srv' = AtLoop(srv, "recv_from_expired")
    /\ UNCHANGED <<sock, datagrams, srv_faults, last_echo, counters, tally, notServer>>

\* recv_from returns another error: the session server counts it, the
\* plain server reports it, the loop goes round.
ServerRecvFromFailed ==
    /\ srv.pc = "recv" /\ ~srv.connected
    /\ srv_faults < MaxServerFaults
    /\ srv_faults' = srv_faults + 1
    /\ srv' = AtLoop(srv, "recv_from_failed")
    /\ counters' = IF variant = "plain" THEN counters ELSE IncrementError(counters)
    /\ tally' = IF variant = "plain" THEN tally ELSE IncrementError(tally)
    /\ UNCHANGED <<sock, datagrams, last_echo, notServer>>

\* The plain server: send_to(&buf[..len], src) succeeds.
ServerSendTo ==
    /\ srv.pc = "send_to"
    /\ last_echo' = [to |-> srv.src, payload |-> srv.buf, of |-> srv.src,
                     arrived |-> srv.arrived]
    /\ srv' = [AtLoop(srv, "send_to") EXCEPT !.echoed = @ + 1]
    /\ UNCHANGED <<sock, datagrams, srv_faults, counters, tally, notServer>>

\* The plain server: send_to fails, which is reported.
ServerSendToFailed ==
    /\ srv.pc = "send_to"
    /\ srv_faults < MaxServerFaults
    /\ srv_faults' = srv_faults + 1
    /\ srv' = AtLoop(srv, "send_to_failed")
    /\ UNCHANGED <<sock, datagrams, last_echo, counters, tally, notServer>>

\* socket.connect(src) succeeds: from now on the socket queues datagrams of
\* src alone; what it has queued before stays queued.
ServerConnect ==
    /\ srv.pc = "connect"
    /\ sock' = [sock EXCEPT !.peer = srv.src]
    /\ srv' = [srv EXCEPT !.pc = "send_first", !.connected = TRUE, !.last_step = "connect"]
    /\ UNCHANGED <<datagrams, srv_faults, last_echo, counters, tally, notServer>>

\* socket.connect(src) fails: the error is counted, `continue`.
ServerConnectFailed ==
    /\ srv.pc = "connect"
    /\ srv_faults < MaxServerFaults
    /\ srv_faults' = srv_faults + 1
    /\ srv' = AtLoop(srv, "connect_failed")
    /\ counters' = IncrementError(counters)
    /\ tally' = IncrementError(tally)
    /\ UNCHANGED <<sock, datagrams, last_echo, notServer>>

\* A first echo that is sent but not counted.
ServerSendFirstUncounted ==
    /\ srv.pc = "send_first"
    /\ last_echo' = [to |-> sock.peer, payload |-> srv.buf, of |-> srv.src,
                     arrived |-> srv.arrived]
    /\ srv' = [AtLoop(srv, "send_first") EXCEPT !.echoed = @ + 1]
    /\ UNCHANGED <<sock, datagrams, srv_faults, counters, tally, notServer>>

\* The echo of the datagram that opened the session: socket.send succeeds.
ServerSendFirst ==
    /\ srv.pc = "send_first"
    /\ last_echo' = [to |-> sock.peer, payload |-> srv.buf, of |-> srv.src,
                     arrived |-> srv.arrived]
    /\ srv' = [AtLoop(srv, "send_first") EXCEPT !.batch_sent = @ + 1, !.echoed = @ + 1]
    /\ UNCHANGED <<sock, datagrams, srv_faults, counters, tally, notServer>>

\* The echo of the datagram that opened the session fails: the error is
\* counted and reported, and the loop goes round.
ServerSendFirstFailed ==
    /\ srv.pc = "send_first"
    /\ srv_faults < MaxServerFaults
    /\ srv_faults' = srv_faults + 1
    /\ srv' = AtLoop(srv, "send_first_failed")
    /\ counters' = IncrementError(counters)
    /\ tally' = IncrementError(tally)
    /\ UNCHANGED <<sock, datagrams, last_echo, notServer>>

\* A receive in a session that does not count its datagram.
ServerRecvUncounted ==
    /\ srv.pc = "recv" /\ srv.connected
    /\ sock.queue # <<>>
    /\ sock' = [sock EXCEPT !.queue = Tail(@)]
    /\ srv' = [srv EXCEPT !.pc = "send",
                          !.last_activity = now,
                          !.buf = RecvInto(Head(sock.queue).payload),
                          !.src = Head(sock.queue).src,
                          !.arrived = Head(sock.queue).payload,
                          !.taken = @ + 1,
                          !.last_step = "recv"]
    /\ UNCHANGED <<datagrams, srv_faults, last_echo, counters, tally, notServer>>

\* In a session: recv returns Ok(len) with the datagram at the head of the
\* queue.
ServerRecv ==
    /\ srv.pc = "recv" /\ srv.connected
    /\ sock.queue # <<>>
    /\ sock' = [sock EXCEPT !.queue = Tail(@)]
    /\ srv' = [srv EXCEPT !.pc = "send",
                          !.batch_received = @ + 1,
                          !.last_activity = now,
                          !.buf = RecvInto(Head(sock.queue).payload),
                          !.src = Head(sock.queue).src,
                          !.arrived = Head(sock.queue).payload,
                          !.taken = @ + 1,
                          !.last_step = "recv"]
    /\ UNCHANGED <<datagrams, srv_faults, last_echo, counters, tally, notServer>>

\* In a session: socket.send succeeds; with a full batch the flush begins.
ServerSend ==
    /\ srv.pc = "send"
    /\ last_echo' = [to |-> sock.peer, payload |-> srv.buf, of |-> srv.src,
                     arrived |-> srv.arrived]
    /\ LET batch_sent == srv.batch_sent + 1
           full == batch_sent >= BATCH_SIZE
           sent == [srv EXCEPT !.batch_sent = batch_sent, !.echoed = @ + 1]
       IN  /\ srv' = IF full THEN Flushing(sent, "send") ELSE AtLoop(sent, "send")
           /\ counters' = IF full THEN AddReceived(counters, srv.batch_received)
                          ELSE counters
           /\ tally' = IF full THEN AddReceived(tally, srv.batch_received) ELSE tally
    /\ UNCHANGED <<sock, datagrams, srv_faults, notServer>>

\* In a session: socket.send fails; the batch is flushed, the error
\* counted, the socket dropped and bound again.
ServerSendFailed ==
    /\ srv.pc = "send"
    /\ srv_faults < MaxServerFaults
    /\ srv_faults' = srv_faults + 1
    /\ IF Pending(srv)
       THEN /\ srv' = Flushing(srv, "send_failed")
            /\ counters' = AddReceived(counters, srv.batch_received)
            /\ tally' = AddReceived(tally, srv.batch_received)
            /\ UNCHANGED sock
       ELSE /\ \E ok \in RebindOutcomes : srv' = Rebind(srv, "send_failed", ok)
            /\ sock' = Bound
            /\ counters' = IncrementError(counters)
            /\ tally' = IncrementError(tally)
    /\ UNCHANGED <<datagrams, last_echo, notServer>>

\* In a session: recv returns WouldBlock or TimedOut after the read
\* timeout; once the session has been idle for IDLE_DISCONNECT_MS the batch
\* is flushed and the socket dropped and bound again.
ServerRecvExpired ==
    /\ srv.pc = "recv" /\ srv.connected
    /\ sock.queue = <<>>
    /\ now >= srv.recv_at + READ_TIMEOUT_MS
    /\ IF now - srv.last_activity < IDLE_DISCONNECT_MS
       THEN /\ srv' = AtLoop(srv, "recv_expired")
            /\ UNCHANGED <<sock, counters, tally>>
       ELSE IF Pending(srv)
       THEN /\ srv' = Flushing(srv, "idle_disconnect")
            /\ counters' = AddReceived(counters, srv.batch_received)
            /\ tally' = AddReceived(tally, srv.batch_received)
            /\ UNCHANGED sock
       ELSE /\ \E ok \in RebindOutcomes : srv' = Rebind(srv, "idle_disconnect", ok)
            /\ sock' = Bound
            /\ UNCHANGED <<counters, tally>>
    /\ UNCHANGED <<datagrams, srv_faults, last_echo, notServer>>

\* The flush goes on: counters.add_sent(batch_sent), both pending counts
\* back to 0, and then what the flush was part of: the head of the loop
\* after a full batch; the error counted (after a failed send or receive)
\* and the socket dropped and bound again otherwise.
ServerAddSent ==
    /\ srv.pc = "add_sent"
    /\ LET failed == srv.after \in {"send_failed", "recv_failed"}
           done == [srv EXCEPT !.batch_received = 0, !.batch_sent = 0]
       IN  /\ counters' = IF failed THEN IncrementError(AddSent(counters, srv.batch_sent))
                          ELSE AddSent(counters, srv.batch_sent)
           /\ tally' = IF failed THEN IncrementError(AddSent(tally, srv.batch_sent))
                       ELSE AddSent(tally, srv.batch_sent)
           /\ IF srv.after = "send"
              THEN /\ srv' = AtLoop(done, "send")
                   /\ UNCHANGED sock
              ELSE /\ \E ok \in RebindOutcomes : srv' = Rebind(done, srv.after, ok)
                   /\ sock' = Bound
    /\ UNCHANGED <<datagrams, srv_faults, last_echo, notServer>>

\* In a session: recv returns another error; the batch is flushed, the
\* error counted, the socket dropped and bound again.
ServerRecvFailed ==
    /\ srv.pc = "recv" /\ srv.connected
    /\ srv_faults < MaxServerFaults
    /\ srv_faults' = srv_faults + 1
    /\ IF Pending(srv)
       THEN /\ srv' = Flushing(srv, "recv_failed")
            /\ counters' = AddReceived(counters, srv.batch_received)
            /\ tally' = AddReceived(tally, srv.batch_received)
            /\ UNCHANGED sock
       ELSE /\ \E ok \in RebindOutcomes : srv' = Rebind(srv, "recv_failed", ok)
            /\ sock' = Bound
            /\ counters' = IncrementError(counters)
            /\ tally' = IncrementError(tally)
    /\ UNCHANGED <<datagrams, last_echo, notServer>>

NextServer ==
    \/ PeerSend
    \/ ClockTick
    \/ ServerRecvFrom
    \/ ServerRecvFromExpired
    \/ ServerRecvFromFailed
    \/ ServerSendTo
    \/ ServerSendToFailed
    \/ ServerConnect
    \/ ServerConnectFailed
    \/ ServerSendFirst
    \/ ServerSendFirstFailed
    \/ ServerRecv
    \/ ServerSend
    \/ ServerSendFailed
    \/ ServerRecvExpired
    \/ ServerRecvFailed
    \/ ServerAddSent

(***************************************************************************)
(* The client's start-up (client/config.rs, bin/client.rs).  A Config is   *)
(* checked only where Config::validate is called; the client binary parses *)
(* its own Args and goes straight to its socket.                           *)
(***************************************************************************)
\* The configurations tried: zero and positive counts and timeouts, and log
\* levels in both cases, unknown and empty.
Configs ==
    [packets : {0, 1, 2}, warmup : {0, 1}, timeout_ms : {0, 100},
     log_level : {"info", "WARN", "verbose", ""}]

\* str::to_lowercase on the levels tried.
ToLowercase(level) == IF level = "WARN" THEN "warn" ELSE level

valid_levels == {"trace", "debug", "info", "warn", "error"}

\* Err(ClientError::Config(msg))
ConfigError(msg) == [tag |-> "Err", variant |-> "Config", msg |-> msg]

\* Config::validate
Validate(config) ==
    IF config.packets = 0
    THEN ConfigError("packets must be > 0")
    ELSE IF config.timeout_ms = 0
         THEN ConfigError("timeout must be > 0")
         ELSE IF ToLowercase(config.log_level) \notin valid_levels
              THEN ConfigError("log_level must be one of")
              ELSE [tag |-> "Ok"]

\* What the client's steps leave alone.
notClient == <<codecVars, engineVars, statsVars, monitorVars, observerVars, serverVars,
               tcp>>

\* A configuration in hand: either a caller of the library is about to
\* validate it, or the client binary has been started with it.
InitClient ==
    /\ client \in [pc : {"start"}, entry : {"validate", "main"}, config : Configs,
                   seq : {0}, io : {0}, validated : {None}]
    /\ tcp = [pc |-> "off"]
    /\ variant = "plain"
    /\ srv = [pc |-> "off"]
    /\ sock = [peer |-> NoPeer, queue |-> <<>>]
    /\ datagrams = 0
    /\ srv_faults = 0
    /\ last_echo = None
    /\ counters = NewCounters
    /\ monitor = [start_time |-> 0, update_interval |-> 100]
    /\ now = 0
    /\ writers = <<>>
    /\ display = [pc |-> "off"]
    /\ shown = None
    /\ caller = [pc |-> "off"]
    /\ server_stats = None
    /\ tally = NewCounters
    /\ last_call = None
    /\ samples = <<>>
    /\ received_at = None
    /\ horizon = 0
    /\ observing = FALSE
    /\ original = None
    /\ wire = <<>>
    /\ raw = 0
    /\ decoded = None
    /\ impl = "lib"
    /\ platform = "unix"
    /\ warmup_count = 0
    /\ packet_count = 0
    /\ phase = "exit"
    /\ pc = "loop"
    /\ seq = 0
    /\ waited = 0
    /\ successful_packets = 0
    /\ warmup_lost = 0
    /\ latencies = <<>>
    /\ lost_packets = 0
    /\ warmup_result = None
    /\ result = None
    /\ net = {}
    /\ rxbuf = <<>>
    /\ faults = 0
    /\ sentLog = <<>>
    /\ attempts = <<>>
    /\ log_debug = FALSE
    /\ stat_latencies = <<>>
    /\ st_pc = "off"
    /\ st_next = 1
    /\ hist = HistogramNew
    /\ real_min = U64_MAX
    /\ real_max = U64FromNat(0)
    /\ clamped_count = 0
    /\ stats = None
    /\ report = None
    /\ answers = <<>>
    /\ recorded = <<>>
    /\ queries = <<>>

\* A caller of the library validates its Config (as tests/client_test.rs
\* does) and goes no further.
ConfigValidate ==
    /\ client.pc = "start" /\ client.entry = "validate"
    /\ client' = [client EXCEPT !.validated = Validate(client.config), !.pc = "done"]
    /\ UNCHANGED notClient

\* main: Args::parse().  Nothing is validated.
MainParse ==
    /\ client.pc = "start" /\ client.entry = "main"
    /\ client' = [client EXCEPT !.pc = "bind"]
    /\ UNCHANGED notClient

\* main: UdpSocket::bind
MainBind ==
    /\ client.pc = "bind"
    /\ client' = [client EXCEPT !.pc = "connect", !.io = @ + 1]
    /\ UNCHANGED notClient

\* main: socket.connect
MainConnect ==
    /\ client.pc = "connect"
    /\ client' = [client EXCEPT !.pc = "set_read_timeout", !.io = @ + 1]
    /\ UNCHANGED notClient

\* main: socket.set_read_timeout(Some(timeout)).expect(..); the call fails
\* on a zero Duration and the expect panics.
MainSetReadTimeout ==
    /\ client.pc = "set_read_timeout"
    /\ client' = [client EXCEPT !.pc = IF client.config.timeout_ms = 0
                                       THEN "panicked" ELSE "warmup",
                                !.io = @ + 1]
    /\ UNCHANGED notClient

\* warmup_phase: one send (and the receive that follows it)
MainWarmupSend ==
    /\ client.pc = "warmup" /\ client.seq < client.config.warmup
    /\ client' = [client EXCEPT !.seq = @ + 1, !.io = @ + 1]
    /\ UNCHANGED notClient

\* warmup_phase returns and measurement_phase starts
MainWarmupReturn ==
    /\ client.pc = "warmup" /\ client.seq = client.config.warmup
    /\ client' = [client EXCEPT !.pc = "measurement", !.seq = 0]
    /\ UNCHANGED notClient

\* measurement_phase: one send (and the receive that follows it)
MainMeasurementSend ==
    /\ client.pc = "measurement" /\ client.seq < client.config.packets
    /\ client' = [client EXCEPT !.seq = @ + 1, !.io = @ + 1]
    /\ UNCHANGED notClient

\* measurement_phase returns, print_results, and main ends
MainPrintResults ==
    /\ client.pc = "measurement" /\ client.seq = client.config.packets
    /\ client' = [client EXCEPT !.pc = "done"]
    /\ UNCHANGED notClient

NextClient ==
    \/ ConfigValidate
    \/ MainParse
    \/ MainBind
    \/ MainConnect
    \/ MainSetReadTimeout
    \/ MainWarmupSend
    \/ MainWarmupReturn
    \/ MainMeasurementSend
    \/ MainPrintResults


(***************************************************************************)
(* The stream transport (client/socket.rs): TcpNetworkSocket over a        *)
(* TcpStream.  The peer's bytes arrive in pieces of any size; read_exact   *)
(* loops over read until its 8-byte buffer is full, and a read that has    *)
(* nothing to take ends with the platform's expiry error once the read     *)
(* timeout has passed.  What read_exact had taken before is gone with the  *)
(* buffer of that call.                                                    *)
(***************************************************************************)
\* The peer's byte stream: the echoes of sequence numbers 0, 1, ...
PeerStream ==
    [i \in 1..(PACKET_SIZE * MaxStreamPackets) |->
        Encode(PacketNew(SequenceNumber(U64FromNat((i - 1) \div PACKET_SIZE))))
            [((i - 1) % PACKET_SIZE) + 1]]

\* What the stream's steps leave alone.
notStream == <<codecVars, engineVars, statsVars, monitorVars, observerVars, serverVars,
               client>>

\* A connected stream whose read timeout has been set, nothing arrived yet.
InitStream ==
    /\ tcp = [pc |-> "idle", arrived |-> 0, taken |-> 0, buf |-> <<>>, start |-> 0,
              waited |-> 0, elapsed |-> 0, calls |-> 0, returned |-> None]
    /\ client = [pc |-> "off"]
    /\ variant = "plain"
    /\ srv = [pc |-> "off"]
    /\ sock = [peer |-> NoPeer, queue |-> <<>>]
    /\ datagrams = 0
    /\ srv_faults = 0
    /\ last_echo = None
    /\ counters = NewCounters
    /\ monitor = [start_time |-> 0, update_interval |-> 100]
    /\ now = 0
    /\ writers = <<>>
    /\ display = [pc |-> "off"]
    /\ shown = None
    /\ caller = [pc |-> "off"]
    /\ server_stats = None
    /\ tally = NewCounters
    /\ last_call = None
    /\ samples = <<>>
    /\ received_at = None
    /\ horizon = 0
    /\ observing = FALSE
    /\ original = None
    /\ wire = <<>>
    /\ raw = 0
    /\ decoded = None
    /\ impl = "lib"
    /\ platform = "unix"
    /\ warmup_count = 0
    /\ packet_count = 0
    /\ phase = "exit"
    /\ pc = "loop"
    /\ seq = 0
    /\ waited = 0
    /\ successful_packets = 0
    /\ warmup_lost = 0
    /\ latencies = <<>>
    /\ lost_packets = 0
    /\ warmup_result = None
    /\ result = None
    /\ net = {}
    /\ rxbuf = <<>>
    /\ faults = 0
    /\ sentLog = <<>>
    /\ attempts = <<>>
    /\ log_debug = FALSE
    /\ stat_latencies = <<>>
    /\ st_pc = "off"
    /\ st_next = 1
    /\ hist = HistogramNew
    /\ real_min = U64_MAX
    /\ real_max = U64FromNat(0)
    /\ clamped_count = 0
    /\ stats = None
    /\ report = None
    /\ answers = <<>>
    /\ recorded = <<>>
    /\ queries = <<>>

\* Some more of the peer's bytes reach the client's socket.
StreamArrive ==
    /\ tcp.pc # "off"
    /\ \E n \in 1..PACKET_SIZE :
          /\ tcp.arrived + n <= Len(PeerStream)
          /\ tcp' = [tcp EXCEPT !.arrived = @ + n]
    /\ UNCHANGED notStream

\* recv_packet is called: a fresh buffer, the stream locked, read_exact.
StreamRecvPacket ==
    /\ tcp.pc = "idle" /\ tcp.calls < MaxReceives
    /\ tcp' = [tcp EXCEPT !.pc = "read_exact", !.buf = <<>>, !.start = tcp.taken,
                          !.waited = 0, !.elapsed = 0, !.calls = @ + 1]
    /\ UNCHANGED notStream

\* read_exact's read takes what is there, up to what the buffer still
\* lacks, and goes on reading.
StreamRead ==
    /\ tcp.pc = "read_exact" /\ tcp.taken < tcp.arrived
    /\ LET lacks == PACKET_SIZE - Len(tcp.buf)
           there == tcp.arrived - tcp.taken
           n     == IF there < lacks THEN there ELSE lacks
       IN  /\ n < lacks
           /\ tcp' = [tcp EXCEPT !.buf = @ \o SubSeq(PeerStream, tcp.taken + 1, tcp.taken + n),
                                 !.taken = @ + n, !.waited = 0]
    /\ UNCHANGED notStream

\* The read that fills the buffer: read_exact returns and recv_packet
\* decodes the buffer and returns the packet.
StreamReadLast ==
    /\ tcp.pc = "read_exact"
    /\ LET lacks == PACKET_SIZE - Len(tcp.buf)
           buf   == tcp.buf \o SubSeq(PeerStream, tcp.taken + 1, tcp.taken + lacks)
       IN  /\ tcp.arrived - tcp.taken >= lacks
           /\ tcp' = [tcp EXCEPT !.pc = "idle", !.buf = <<>>, !.taken = @ + lacks,
                                 !.waited = 0, !.elapsed = 0,
                                 !.returned = [at |-> tcp.start, bytes |-> buf,
                                               result |-> Decode(buf)]]
    /\ UNCHANGED notStream

\* A read waits for bytes.
StreamWait ==
    /\ tcp.pc = "read_exact" /\ tcp.taken = tcp.arrived /\ tcp.waited < TimeoutTicks
    /\ tcp' = [tcp EXCEPT !.waited = @ + 1, !.elapsed = @ + 1]
    /\ UNCHANGED notStream

\* A read has waited for the read timeout: read_exact hands its error out,
\* recv_packet maps it to ClientError::Io and drops its buffer.
StreamReadExpired ==
    /\ tcp.pc = "read_exact" /\ tcp.taken = tcp.arrived /\ tcp.waited = TimeoutTicks
    /\ tcp' = [tcp EXCEPT !.pc = "idle", !.buf = <<>>, !.waited = 0, !.elapsed = 0,
                          !.returned = [at |-> tcp.start, bytes |-> tcp.buf,
                                        result |-> IoErr(ExpiryKind(platform))]]
    /\ UNCHANGED notStream

NextStream ==
    \/ StreamArrive
    \/ StreamRecvPacket
    \/ StreamRead
    \/ StreamReadLast
    \/ StreamWait
    \/ StreamReadExpired

(***************************************************************************)
(* The session server with its monitor (bin/server.rs:25-29): the main     *)
(* thread's loop and the display thread started by start_display run side  *)
(* by side over the shared counters.                                       *)
(***************************************************************************)
InitServed ==
    /\ variant = "session"
    /\ srv = Started
    /\ sock = Bound
    /\ datagrams = 0
    /\ srv_faults = 0
    /\ last_echo = None
    /\ client = [pc |-> "off"]
    /\ tcp = [pc |-> "off"]
    /\ counters = NewCounters
    /\ monitor = [start_time |-> 0, update_interval |-> 100]
    /\ now = 0
    /\ writers = <<>>
    /\ display = [pc |-> "sleep", last_sample |-> 0, received |-> 0, sent |-> 0,
                  last_received |-> 0, last_packet_time |-> 0, blink_state |-> FALSE,
                  last_blink_time |-> 0]
    /\ shown = None
    /\ caller = [pc |-> "off"]
    /\ server_stats = None
    /\ tally = NewCounters
    /\ last_call = None
    /\ samples = <<>>
    /\ received_at = None
    /\ horizon = MaxServerTicks * ClockStepMs
    /\ observing = FALSE
    /\ original = None
    /\ wire = <<>>
    /\ raw = 0
    /\ decoded = None
    /\ impl = "lib"
    /\ platform = "unix"
    /\ warmup_count = 0
    /\ packet_count = 0
    /\ phase = "exit"
    /\ pc = "loop"
    /\ seq = 0
    /\ waited = 0
    /\ successful_packets = 0
    /\ warmup_lost = 0
    /\ latencies = <<>>
    /\ lost_packets = 0
    /\ warmup_result = None
    /\ result = None
    /\ net = {}
    /\ rxbuf = <<>>
    /\ faults = 0
    /\ sentLog = <<>>
    /\ attempts = <<>>
    /\ log_debug = FALSE
    /\ stat_latencies = <<>>
    /\ st_pc = "off"
    /\ st_next = 1
    /\ hist = HistogramNew
    /\ real_min = U64_MAX
    /\ real_max = U64FromNat(0)
    /\ clamped_count = 0
    /\ stats = None
    /\ report = None
    /\ answers = <<>>
    /\ recorded = <<>>
    /\ queries = <<>>

NextServed ==
    \/ PeerSend
    \/ ClockTick
    \/ ServerRecvFrom
    \/ ServerRecvFromExpired
    \/ ServerRecvFromFailed
    \/ ServerConnect
    \/ ServerConnectFailed
    \/ ServerSendFirst
    \/ ServerSendFirstFailed
    \/ ServerRecv
    \/ ServerSend
    \/ ServerSendFailed
    \/ ServerRecvExpired
    \/ ServerRecvFailed
    \/ ServerAddSent
    \/ DisplayWake
    \/ DisplayLoadSent
    \/ DisplaySample

(***************************************************************************)
(* Specifications.                                                         *)
(***************************************************************************)
SpecCodec == InitCodec /\ [][NextCodec]_vars

SpecEngine == InitEngine /\ [][NextEngine]_vars

SpecStats == InitStats /\ [][NextStats]_vars

SpecMonitor == InitMonitor /\ [][NextMonitor]_vars

SpecThreads == InitThreads /\ [][NextThreads]_vars

SpecDisplay == InitDisplay /\ [][NextDisplay]_vars

SpecServer == InitServer /\ [][NextServer]_vars

SpecClient == InitClient /\ [][NextClient]_vars

SpecStream == InitStream /\ [][NextStream]_vars

SpecServed == InitServed /\ [][NextServed]_vars


(***************************************************************************)
(* The history, read back.                                                 *)
(***************************************************************************)
\* The phases that count what they lose: both of the library, and the
\* binary's measurement phase (its warmup keeps no counts).
Counting(a) == impl = "lib" \/ a.ph = "measurement"

\* The attempt received a whole packet that carries another number than
\* the one it sent.
Mismatch(a) ==
    /\ a.event = "packet"
    /\ Len(a.msg.bytes) >= PACKET_SIZE
    /\ FromLeBytes(SubSeq(a.msg.bytes, 1, PACKET_SIZE)) # U64FromNat(a.sq)

\* The attempt received fewer than 8 bytes.
Malformed(a) == a.event = "packet" /\ Len(a.msg.bytes) < PACKET_SIZE

SuccBefore(i) ==
    Cardinality({j \in 1..(i - 1) :
                    attempts[j].ph = attempts[i].ph /\ attempts[j].succ = 1})

LostBefore(i) ==
    Cardinality({j \in 1..(i - 1) :
                    attempts[j].ph = attempts[i].ph /\ attempts[j].lost = 1})

SentInPhaseBefore(i) ==
    Cardinality({j \in 1..(i - 1) : sentLog[j].ph = sentLog[i].ph})

(***************************************************************************)
(* Claims.                                                                 *)
(***************************************************************************)
\* C1: a result returned by measurement_phase accounts for every packet:
\* latencies.len() + lost_packets = total_packets = packet_count, whatever
\* the attempts' outcomes were and also for packet_count = 0.
C1_ResultAccounting ==
    result.tag = "Ok" =>
        /\ Len(result.latencies) + result.lost_packets = result.total_packets
        /\ result.total_packets = packet_count

\* The library returned a result that mixes successes and losses.
C1_Witness ==
    /\ impl = "lib"
    /\ result.tag = "Ok"
    /\ Len(result.latencies) >= 1
    /\ result.lost_packets >= 1

\* C2 (as claimed): an attempt whose receive ended because the read timeout
\* expired, under whichever error kind the platform reports it, is counted
\* as one lost packet and does not abort the phase.
C2_ExpiryIsLoss ==
    \A i \in DOMAIN attempts :
        (attempts[i].event = "expiry" /\ Counting(attempts[i])) =>
            (attempts[i].lost = 1 /\ ~attempts[i].aborted)

\* C3: an attempt that receives a packet with another sequence number adds
\* exactly one to the lost count and records no latency, the phase's counts
\* are the sums of what its attempts added, and the packet it received is
\* the packet of no other attempt.
C3_MismatchIsLoss ==
    /\ \A i \in DOMAIN attempts :
          (Mismatch(attempts[i]) /\ Counting(attempts[i])) =>
              /\ attempts[i].lost = 1
              /\ attempts[i].succ = 0
              /\ attempts[i].latency = None
              /\ \A j \in DOMAIN attempts :
                    j # i => attempts[j].msg # attempts[i].msg
    /\ lost_packets =
          Cardinality({i \in DOMAIN attempts :
                          attempts[i].ph = "measurement" /\ attempts[i].lost = 1})
    /\ Len(latencies) =
          Cardinality({i \in DOMAIN attempts :
                          attempts[i].ph = "measurement" /\ attempts[i].succ = 1})
    /\ impl = "lib" =>
          warmup_lost =
             Cardinality({i \in DOMAIN attempts :
                             attempts[i].ph = "warmup" /\ attempts[i].lost = 1})

\* The library's measurement phase met a mismatch, and went on to return.
C3_Witness ==
    /\ impl = "lib"
    /\ result.tag = "Ok"
    /\ \E i \in DOMAIN attempts :
          Mismatch(attempts[i]) /\ attempts[i].ph = "measurement"

\* C4: in the library, a failed send, a failed receive that is no timeout or
\* a malformed packet during attempt i makes the phase return at once: it is
\* the last attempt and the last send, and the error carries the successes
\* and losses counted before it, with processed = successful + lost = i.
C4_AbortCarriesProgress ==
    impl = "lib" =>
        \A i \in DOMAIN attempts :
            LET a == attempts[i]
                r == IF a.ph = "warmup" THEN warmup_result ELSE result
            IN  ((a.event \in {"sendfail", "ioerror"} \/ Malformed(a))
                     /\ a.kind # "TimedOut") =>
                    /\ a.aborted
                    /\ i = Len(attempts)
                    /\ Len(sentLog) = i
                    /\ phase = "exit"
                    /\ r.tag = "Err"
                    /\ r.variant = "Measurement"
                    /\ r.successful = SuccBefore(i)
                    /\ r.lost = LostBefore(i)
                    /\ r.processed = r.successful + r.lost
                    /\ r.processed = a.sq

\* The library's measurement phase was interrupted by a failed receive at
\* its third attempt, after one success and one loss.
C4_Witness ==
    /\ impl = "lib"
    /\ result.tag = "Err"
    /\ result.processed = 2
    /\ result.successful = 1
    /\ result.lost = 1
    /\ attempts[Len(attempts)].event = "ioerror"

\* C5 (as claimed): a send that fails with an error that is no timeout is
\* not counted as a lost packet and aborts the phase.
C5_SendFailureAborts ==
    \A i \in DOMAIN attempts :
        (attempts[i].event = "sendfail" /\ attempts[i].kind # "TimedOut") =>
            /\ attempts[i].msg = None
            /\ attempts[i].lost = 0
            /\ attempts[i].aborted

\* C6 (as claimed): only an expired read timeout and a sequence mismatch
\* are counted as a loss; a receive that fails with another I/O error
\* (the peer closed, or refused) or gets a malformed packet is not counted
\* and aborts the phase.
C6_OnlyExpiryAndMismatchLose ==
    \A i \in DOMAIN attempts :
        Counting(attempts[i]) =>
            /\ attempts[i].lost = 1 =>
                  (attempts[i].event = "expiry" \/ Mismatch(attempts[i]))
            /\ (attempts[i].event = "ioerror" \/ Malformed(attempts[i])) =>
                  (attempts[i].lost = 0 /\ attempts[i].aborted)

\* C7: in each phase the k-th send carries sequence number k - 1, the i-th
\* send belongs to the i-th attempt, and a send not yet followed by its
\* attempt's outcome is the only one and the client is waiting in recv.
C7_StrictSequence ==
    /\ \A i \in DOMAIN sentLog : sentLog[i].sq = SentInPhaseBefore(i)
    /\ \A i \in DOMAIN attempts :
          attempts[i].ph = sentLog[i].ph /\ attempts[i].sq = sentLog[i].sq
    /\ Len(sentLog) - Len(attempts) \in {0, 1}
    /\ Len(sentLog) - Len(attempts) = 1 <=> pc = "recv"

\* The third probe of a run, the second of its measurement phase, is out.
C7_Witness ==
    /\ Len(sentLog) = 3
    /\ sentLog[3] = [ph |-> "measurement", sq |-> 1, ok |-> TRUE]
    /\ pc = "recv"

\* C8 (as claimed): a latency recorded in the measurement phase for sequence
\* number s comes from the echo of the measurement probe s.
C8_LatencyFromOwnEcho ==
    \A i \in DOMAIN attempts :
        (attempts[i].ph = "measurement" /\ attempts[i].succ = 1) =>
            /\ attempts[i].msg.ph = "measurement"
            /\ attempts[i].msg.sq = attempts[i].sq

\* C9: decoding the untouched encoding of a packet succeeds and gives the
\* packet back.
C9_RoundTrip ==
    (decoded # None /\ original # None /\ raw = 0) =>
        decoded = [tag |-> "Ok", packet |-> original]

\* A packet whose bytes all differ from their mirror image went through.
C9_Witness ==
    /\ decoded.tag = "Ok"
    /\ raw = 0
    /\ original.sequence.value = <<258, 1, 0, 65535>>

\* C10: decode fails with the size error (expected 8, got the length) on
\* every input shorter than 8 bytes, and on every longer input succeeds
\* with the packet whose encoding is the input's first 8 bytes.
C10_DecodeSize ==
    decoded # None =>
        IF Len(wire) < PACKET_SIZE
        THEN decoded = [tag |-> "Err", variant |-> "Protocol",
                        expected |-> PACKET_SIZE, actual |-> Len(wire)]
        ELSE /\ decoded.tag = "Ok"
             /\ \A i \in 1..PACKET_SIZE : Encode(decoded.packet)[i] = wire[i]

\* A 9-byte input whose last byte differs from every other was decoded.
C10_Witness ==
    /\ decoded.tag = "Ok"
    /\ Len(wire) = 9
    /\ wire[9] = 255
    /\ \A i \in 1..PACKET_SIZE : wire[i] = 1

\* C11: the encoding of a packet is exactly 8 bytes, each in 0..255, and
\* bytes 2j-2 and 2j-1 (0-based) hold the low and the high half of the j-th
\* 16-bit limb of the sequence number: byte i is bits 8i..8i+7, with
\* nothing before or after them.
C11_EncodeLayout ==
    (original # None /\ raw = 0) =>
        /\ Len(wire) = PACKET_SIZE
        /\ \A i \in 1..Len(wire) : wire[i] \in 0..(ByteBase - 1)
        /\ \A j \in 1..4 :
             /\ wire[2 * j - 1] = original.sequence.value[j] % ByteBase
             /\ wire[2 * j] = original.sequence.value[j] \div ByteBase

\* A sequence number whose lowest limb is 0x0102 was encoded: its first two
\* bytes are 2 and 1.
C11_Witness ==
    /\ original # None
    /\ raw = 0
    /\ original.sequence.value[1] = 258
    /\ wire[1] = 2
    /\ wire[2] = 1
    /\ original.sequence.value[4] = 65535

\* A raw latency strictly outside the histogram's bounds.
OutOfRange(latency) ==
    \/ U64Less(latency, U64FromNat(HISTOGRAM_LOW_BOUND_NS))
    \/ U64Less(U64FromNat(HISTOGRAM_HIGH_BOUND_NS), latency)

\* C12: every value handed to the histogram lies within its bounds and is
\* the raw latency itself when that lies within them; once Statistics::new
\* has returned, the histogram holds one entry per input latency, each in
\* the range of the value recorded for it, and clamped_count is the number
\* of inputs strictly outside the bounds, hence at most the input's length.
C12_ClampInvariant ==
    /\ \A i \in 1..Len(recorded) :
         /\ recorded[i] >= HISTOGRAM_LOW_BOUND_NS
         /\ recorded[i] <= HISTOGRAM_HIGH_BOUND_NS
         /\ ~OutOfRange(stat_latencies[i]) =>
                U64FromNat(recorded[i]) = stat_latencies[i]
    /\ stats # None =>
         /\ stats.tag = "Ok"
         /\ Len(recorded) = Len(stat_latencies)
         /\ StatCount(stats) = Len(stat_latencies)
         /\ \A l \in DOMAIN stats.hist.counts :
              stats.hist.counts[l] =
                  Cardinality({i \in 1..Len(recorded) : LowestEquivalent(recorded[i]) = l})
         /\ \A i \in 1..Len(recorded) :
              LowestEquivalent(recorded[i]) \in DOMAIN stats.hist.counts
         /\ ClampedCount(stats) =
                Cardinality({i \in 1..Len(stat_latencies) : OutOfRange(stat_latencies[i])})
         /\ ClampedCount(stats) <= Len(stat_latencies)

\* Three latencies went in, one below the low bound, one on it and
\* u64::MAX: two were clamped.
C12_Witness ==
    /\ stats # None
    /\ stat_latencies = << U64FromNat(HISTOGRAM_LOW_BOUND_NS - 1),
                           U64FromNat(HISTOGRAM_LOW_BOUND_NS), U64_MAX >>
    /\ ClampedCount(stats) = 2
    /\ recorded = << HISTOGRAM_LOW_BOUND_NS, HISTOGRAM_LOW_BOUND_NS,
                     HISTOGRAM_HIGH_BOUND_NS >>

\* C13 (as claimed): for a non-empty input, min() is the smallest and max()
\* the largest raw latency, whatever 64-bit values the input holds.
C13_TrueMinMax ==
    (stats # None /\ stats.tag = "Ok" /\ Len(stat_latencies) > 0) =>
        /\ \E i \in 1..Len(stat_latencies) : Min(stats) = stat_latencies[i]
        /\ \A i \in 1..Len(stat_latencies) : ~U64Less(stat_latencies[i], Min(stats))
        /\ \E i \in 1..Len(stat_latencies) : Max(stats) = stat_latencies[i]
        /\ \A i \in 1..Len(stat_latencies) : ~U64Less(Max(stats), stat_latencies[i])

\* C14: Statistics::new on an empty slice returns Ok, and the statistics
\* report count 0, clamped_count 0, min 0 and max 0.
C14_EmptyStatistics ==
    (st_pc \in {"built", "reported"} /\ Len(stat_latencies) = 0) =>
        /\ stats.tag = "Ok"
        /\ StatCount(stats) = 0
        /\ ClampedCount(stats) = 0
        /\ Min(stats) = U64FromNat(0)
        /\ Max(stats) = U64FromNat(0)

\* Statistics::new returned for an empty slice.
C14_Witness ==
    /\ stats # None
    /\ stat_latencies = <<>>
    /\ st_pc = "built"
    /\ real_min = U64_MAX

\* C15 (as claimed): no mean or percentile query is ever made on statistics
\* whose sample count is zero, neither by the report nor by Statistics::new.
C15_NoQueryOnEmpty ==
    \A i \in 1..Len(queries) : queries[i].count > 0

\* C16: percentile is monotone: of two answers given for the same
\* non-empty statistics, the one for the smaller quantile is not the
\* larger, and the report's four percentiles come in ascending order.
C16_PercentileMonotone ==
    /\ \A q1 \in DOMAIN answers : \A q2 \in DOMAIN answers :
           q1 < q2 => answers[q1] <= answers[q2]
    /\ (report # None /\ report.kind = "full") =>
           /\ report.p50 <= report.p90
           /\ report.p90 <= report.p99
           /\ report.p99 <= report.p999
           /\ \A q \in DOMAIN answers :
                /\ q <= 500 => answers[q] <= report.p50
                /\ q >= 999 => report.p999 <= answers[q]

\* Quantile 0 and quantile 1 were asked of statistics holding values from
\* different ranges, and the answers differ.
C16_Witness ==
    /\ {0, 500, 1000} \subseteq DOMAIN answers
    /\ Len(stat_latencies) = 3
    /\ answers[0] < answers[500]
    /\ answers[500] < answers[1000]

\* Every thread has made all its calls.
AllFinished == \A w \in DOMAIN writers : writers[w].made = writers[w].calls

\* C17: Threads threads each call increment_received CallsPerThread times
\* on handles of one monitor.  No update is lost at any point: the
\* received counter always equals the number of calls made, so once all
\* threads have finished it is Threads * CallsPerThread, and so is the total
\* that a stats() begun after they finished returns.
C17_NoLostUpdate ==
    /\ counters.packets_received = CallsMade
    /\ AllFinished => counters.packets_received = Threads * CallsPerThread
    /\ (server_stats # None /\ server_stats.calls = Threads * CallsPerThread) =>
           server_stats.packets_received = Threads * CallsPerThread

\* All threads finished their interleaved calls and stats() was then called.
C17_Witness ==
    /\ AllFinished
    /\ server_stats # None
    /\ server_stats.calls = Threads * CallsPerThread
    /\ server_stats.packets_received = Threads * CallsPerThread
    /\ Threads > 1 /\ CallsPerThread > 1

\* C18: no step lowers any of the three counters, and a step of the display
\* thread or of stats() leaves all three as they are.
C18_CountersMonotone ==
    [][ /\ counters'.packets_received >= counters.packets_received
        /\ counters'.packets_sent >= counters.packets_sent
        /\ counters'.errors >= counters.errors
        /\ (<<display, shown, caller, server_stats>>' # <<display, shown, caller, server_stats>>)
              => counters' = counters ]_vars

\* The display thread has sampled and stats() has returned while all three
\* counters were above 0.
C18_Witness ==
    /\ shown # None /\ shown.received > 0
    /\ server_stats # None /\ server_stats.packets_sent > 0
    /\ counters.errors > 0

\* C19: a call of increment_received, increment_sent or increment_error
\* raises its own counter by exactly 1 and leaves the other two as they
\* were; the counters hold what the calls made so far add up to; and a
\* stats() during which no call was made returns the three current totals.
C19_IncrementFrame ==
    /\ last_call # None =>
         /\ last_call.op = "increment_received" =>
                last_call.after = [last_call.before EXCEPT !.packets_received = @ + 1]
         /\ last_call.op = "increment_sent" =>
                last_call.after = [last_call.before EXCEPT !.packets_sent = @ + 1]
         /\ last_call.op = "increment_error" =>
                last_call.after = [last_call.before EXCEPT !.errors = @ + 1]
    /\ counters = tally
    /\ (server_stats # None /\ server_stats.calls = CallsMade) =>
         /\ server_stats.packets_received = counters.packets_received
         /\ server_stats.packets_sent = counters.packets_sent
         /\ server_stats.errors = counters.errors

\* One call of each increment was made on the fresh monitor, the error
\* last, and stats() then returned 1, 1, 1.
C19_Witness ==
    /\ CallsMade = 3
    /\ last_call # None /\ last_call.op = "increment_error"
    /\ last_call.before = [packets_received |-> 1, packets_sent |-> 1, errors |-> 0]
    /\ server_stats # None /\ server_stats.calls = 3
    /\ server_stats.packets_received = 1
    /\ server_stats.packets_sent = 1
    /\ server_stats.errors = 1

\* n calls of increment_received, and n calls of increment_sent.
RECURSIVE IncrementReceivedTimes(_, _)
IncrementReceivedTimes(c, n) ==
    IF n = 0 THEN c ELSE IncrementReceived(IncrementReceivedTimes(c, n - 1))

RECURSIVE IncrementSentTimes(_, _)
IncrementSentTimes(c, n) ==
    IF n = 0 THEN c ELSE IncrementSent(IncrementSentTimes(c, n - 1))

ReceivedBefore(i) == IF i = 1 THEN 0 ELSE samples[i - 1].received

\* Sample i observed a change of the received counter.
Changed(i) == samples[i].received # ReceivedBefore(i)

\* The samples before sample i that observed a change.
ChangedBefore(i) == {j \in 1..(i - 1) : Changed(j)}

\* When the last sample before sample i that observed a change was taken;
\* when the display thread started, if none did.
LastChangeSeenAt(i) ==
    IF ChangedBefore(i) = {} THEN monitor.start_time
    ELSE samples[CHOOSE j \in ChangedBefore(i) : \A k \in ChangedBefore(i) : k <= j].at

\* C21 as stated: a sample classifies the server idle exactly when the
\* received counter did not change since the previous sample and the time
\* since the last sample that observed a change exceeds 150 ms; every other
\* sample classifies it active.
C21_IdleIffExceeds ==
    \A i \in DOMAIN samples :
        samples[i].idle <=>
            (~Changed(i) /\ samples[i].at - LastChangeSeenAt(i) > IDLE_THRESHOLD_MS)

\* C21, amended: a sample classifies the server idle exactly when the
\* received counter did not change since the previous sample and at least
\* 150 ms have passed since the last sample that observed a change (since
\* the display thread started, if none has); every other sample, every
\* sample that observes a change among them, classifies it active.
C21_IdleIffAtLeast ==
    \A i \in DOMAIN samples :
        /\ samples[i].idle <=>
              (~Changed(i) /\ samples[i].at - LastChangeSeenAt(i) >= IDLE_THRESHOLD_MS)
        /\ Changed(i) => ~samples[i].idle

\* A sample saw a change and called the server active, one that saw none
\* less than 150 ms after the last change seen called it active, and one
\* that saw none exactly 150 ms after the change called it idle.
C21_Witness ==
    \E i, j, k \in DOMAIN samples :
        /\ i < k
        /\ Changed(i) /\ ~samples[i].idle
        /\ ~Changed(j) /\ ~samples[j].idle
        /\ ~Changed(k) /\ samples[k].idle
        /\ LastChangeSeenAt(k) = samples[i].at
        /\ samples[k].at - samples[i].at = IDLE_THRESHOLD_MS

\* Sample i is the first that was taken more than 150 ms after the last
\* packet was counted, it loaded a counter that holds every packet, and the
\* sample before it showed the server active.
FirstAfterQuiet(i) ==
    /\ i > 1
    /\ ~samples[i - 1].idle
    /\ samples[i].flat_since # None
    /\ samples[i].received = samples[i].total
    /\ samples[i].at - samples[i].flat_since.at > IDLE_THRESHOLD_MS
    /\ samples[i - 1].at - samples[i].flat_since.at <= IDLE_THRESHOLD_MS

BlinkBefore(i) == IF i = 1 THEN FALSE ELSE samples[i - 1].blink

\* Sample i classified the server active and toggled the indicator.
Toggled(i) == ~samples[i].idle /\ samples[i].blink # BlinkBefore(i)

\* Every sample up to sample j was taken the moment its sleep ended.
Punctual(j) == \A k \in 1..j : samples[k].at = k * monitor.update_interval

\* Samples i and j are two toggles in a row of an active stretch: every
\* sample from i to j classified the server active and none between them
\* toggled.
ToggleAfterToggle(i, j) ==
    /\ i < j
    /\ Toggled(i) /\ Toggled(j)
    /\ \A k \in i..j : ~samples[k].idle
    /\ \A k \in (i + 1)..(j - 1) : ~Toggled(k)

\* C23: while the server is classified active, a toggle of the indicator
\* follows the toggle before it after 200 ms, whatever the update interval
\* (taken here with every sample on time); and a sample that classifies
\* the server idle leaves the indicator off.
C23_BlinkEvery200 ==
    /\ \A j \in DOMAIN samples : \A i \in 1..(j - 1) :
           (Punctual(j) /\ ToggleAfterToggle(i, j)) =>
               samples[j].at - samples[i].at = BLINK_INTERVAL_MS
    /\ \A i \in DOMAIN samples : samples[i].idle => ~samples[i].blink

(***************************************************************************)
(* The datagram servers.                                                   *)
(***************************************************************************)
\* C24: the server sends at most one datagram per datagram it receives,
\* and what it sends goes to the source of the datagram just received and
\* carries the payload that arrived, byte for byte and in full length.
C24_EchoToSource ==
    /\ srv.echoed <= srv.taken
    /\ last_echo # None =>
          /\ last_echo.to = last_echo.of
          /\ last_echo.payload = last_echo.arrived

\* The steps in which a receive, a connect or a send of the server failed.
FailureSteps == {"recv_from_failed", "connect_failed", "send_first_failed",
                 "send_to_failed", "send_failed", "recv_failed"}

\* C25: a failed receive or send never ends the server: after the step
\* that handled the failure the main thread is back at the head of its
\* loop, in its next receive.
C25_LoopKeepsRunning ==
    srv.last_step \in FailureSteps => srv.pc = "recv"

\* C26: in a session, every failed send of an echo, the echo of the
\* datagram that opened the session included, leaves the server
\* unconnected, with a socket that takes datagrams of any peer.
C26_SendFailureDisconnects ==
    (srv.last_step \in {"send_first_failed", "send_failed"} /\ srv.pc = "recv") =>
        (~srv.connected /\ sock.peer = NoPeer)

\* C27: in a session, the receive that times out with no datagram of the
\* peer for 200 ms or more ends the session: the main thread is back in its
\* loop, unconnected, with a socket that takes datagrams of any peer.
C27_IdleDisconnects ==
    srv.last_step = "idle_disconnect" =>
        (srv.pc = "recv" /\ ~srv.connected /\ sock.peer = NoPeer)

(***************************************************************************)
(* Whole runs of the client.                                               *)
(***************************************************************************)
\* The attempt received, within the read timeout, the echo of its own
\* probe, whole.
OwnEcho(a) ==
    /\ a.event = "packet"
    /\ a.msg = [ph |-> a.ph, sq |-> a.sq,
                bytes |-> Encode(PacketNew(SequenceNumber(U64FromNat(a.sq))))]

\* So far the run is clean: every probe was sent, nothing failed, and
\* every attempt that has ended received its own echo.
Clean ==
    /\ faults = 0
    /\ \A i \in DOMAIN sentLog : sentLog[i].ok
    /\ \A i \in DOMAIN attempts : OwnEcho(attempts[i])

\* The attempts of the measurement phase that have ended.
MeasurementAttempts == {i \in DOMAIN attempts : attempts[i].ph = "measurement"}

\* C28: in a clean run (the peer echoes every probe and the network
\* delivers every echo to the attempt that waits for it) the measurement
\* phase loses nothing and records one latency per attempt, and once the
\* client has run its warmup and its measurement phase the result holds
\* lost_packets = 0 and packet_count latencies.
C28_CleanRun ==
    Clean =>
        /\ lost_packets = 0
        /\ Len(latencies) = Cardinality(MeasurementAttempts)
        /\ (phase = "exit" /\ warmup_result = [tag |-> "Ok"]) =>
              /\ result = MeasurementResult(latencies, 0, packet_count)
              /\ Len(result.latencies) = packet_count

\* The library ran a warmup of one packet and a measurement of two on a
\* clean network and returned its result.
C28_Witness ==
    /\ Clean
    /\ impl = "lib"
    /\ warmup_count = 1 /\ packet_count = 2
    /\ Len(attempts) = 3
    /\ phase = "exit"
    /\ result.tag = "Ok"
    /\ result.lost_packets = 0
    /\ Len(result.latencies) = 2

\* So far the peer has never answered: every probe was sent, nothing
\* failed, and every attempt that has ended waited out the read timeout.
NeverAnswered ==
    /\ faults = 0
    /\ \A i \in DOMAIN sentLog : sentLog[i].ok
    /\ \A i \in DOMAIN attempts : attempts[i].event = "expiry"

\* C29: when the peer never answers, the measurement phase of packet_count
\* packets completes without error and returns lost_packets = packet_count
\* and no latency (from which the report is the "no data" report).
C29_TotalLoss ==
    (NeverAnswered /\ phase = "exit" /\ warmup_result = [tag |-> "Ok"]) =>
        result = MeasurementResult(<<>>, packet_count, packet_count)

\* C30: the warmup phase yields Ok(()) or an error and nothing else; while
\* it runs, and when it was aborted, there is no measurement result and no
\* measurement attempt; the measurement phase starts with no latency and a
\* lost count of 0 whatever the warmup counted; and its counts, and the
\* result made of them, come from the measurement attempts alone.
C30_WarmupIsolated ==
    /\ warmup_result # None =>
          (warmup_result = [tag |-> "Ok"] \/ warmup_result.tag \in {"Err", "Panic"})
    /\ (phase = "warmup" \/ warmup_result # [tag |-> "Ok"]) =>
          /\ result = None
          /\ MeasurementAttempts = {}
    /\ MeasurementAttempts = {} => (latencies = <<>> /\ lost_packets = 0)
    /\ Len(latencies) =
          Cardinality({i \in MeasurementAttempts : attempts[i].succ = 1})
    /\ lost_packets =
          Cardinality({i \in MeasurementAttempts : attempts[i].lost = 1})
    /\ result.tag = "Ok" =>
          (result.latencies = latencies /\ result.lost_packets = lost_packets)

\* The library's warmup counted a success and a loss and returned, and the
\* measurement phase is about to send its first probe with nothing counted.
C30_Witness ==
    /\ impl = "lib"
    /\ successful_packets = 1 /\ warmup_lost = 1
    /\ warmup_result = [tag |-> "Ok"]
    /\ phase = "measurement" /\ pc = "loop" /\ seq = 0
    /\ packet_count > 0
    /\ latencies = <<>> /\ lost_packets = 0

(***************************************************************************)
(* C31.  A configuration with packets = 0 or timeout_ms = 0 is rejected by *)
(* validation with a configuration error, one with packets > 0,            *)
(* timeout_ms > 0 and a valid log level is accepted, and the rejection     *)
(* comes before the client performs any socket operation.                  *)
(***************************************************************************)
Invalid(config) == config.packets = 0 \/ config.timeout_ms = 0

C31_RejectedBeforeIo ==
    client.pc # "off" =>
        /\ Invalid(client.config) =>
              /\ client.io = 0
              /\ client.pc \in {"done", "panicked"} =>
                    /\ client.validated # None
                    /\ client.validated.tag = "Err"
                    /\ client.validated.variant = "Config"
        /\ /\ ~Invalid(client.config)
           /\ ToLowercase(client.config.log_level) \in valid_levels
           /\ client.validated # None
           => client.validated.tag = "Ok"

(***************************************************************************)
(* C32.  On the stream transport every packet recv_packet returns is       *)
(* decoded from exactly 8 consecutive bytes of the peer's stream that      *)
(* start at a multiple of 8, also after receives that timed out with fewer *)
(* than 8 bytes arrived; a short read is never returned as a packet.       *)
(***************************************************************************)
C32_FramedReceive ==
    (tcp.pc # "off" /\ tcp.returned # None /\ tcp.returned.result.tag = "Ok") =>
        /\ Len(tcp.returned.bytes) = PACKET_SIZE
        /\ tcp.returned.bytes
              = SubSeq(PeerStream, tcp.returned.at + 1, tcp.returned.at + PACKET_SIZE)
        /\ tcp.returned.at % PACKET_SIZE = 0

(***************************************************************************)
(* C33.  Every receive attempt of the measurement engine ends within the   *)
(* configured read timeout (so a phase of N sequence numbers ends after at *)
(* most N attempts, whatever the peer and the network do): no recv_packet  *)
(* is still under way once the read timeout has passed since its start.    *)
(***************************************************************************)
C33_ReceiveWithinTimeout ==
    tcp.pc = "read_exact" => tcp.elapsed <= TimeoutTicks

(***************************************************************************)
(* C34.  Every sample the monitor thread takes is consistent: the sent     *)
(* total it reads never exceeds the received total it reads in the same    *)
(* sample, however the server loop's batched counter updates interleave    *)
(* with the monitor's loads.                                               *)
(***************************************************************************)
C34_ConsistentSample ==
    (srv.pc # "off" /\ shown # None) => shown.sent <= shown.received

C37_QuietIsFlushed ==
    (/\ variant = "session" /\ srv.pc = "recv"
     /\ srv.last_step \in {"recv_from_expired", "recv_expired", "idle_disconnect"}
     /\ srv.recv_at - srv.last_activity >= IDLE_DISCONNECT_MS) =>
        (srv.batch_received = 0 /\ srv.batch_sent = 0)

(***************************************************************************)
(* C38.  The monitor never shows the datagram server as idle while it is   *)
(* serving traffic: a sample taken less than 150 ms after the server       *)
(* received a datagram, which it had echoed before the display thread woke *)
(* for that sample, classifies the server as active, also when the server  *)
(* batches its counter updates.                                            *)
(***************************************************************************)
C38_ServingIsActive ==
    [][(/\ display.pc = "load_errors" /\ display'.pc = "sleep"
        /\ srv.pc = "recv" /\ srv.last_step \in {"send_first", "send"}
        /\ srv.recv_at < display.last_sample + monitor.update_interval
        /\ now - srv.last_activity < IDLE_THRESHOLD_MS)
       => shown'.status = "ACTIVE"]_vars

(***************************************************************************)
(* C39.  In the batching datagram server the shared error counter is the   *)
(* number of connect failures, send failures and receive failures other    *)
(* than timeouts: each such failure increments it once (at the end of its  *)
(* handling, after the flush if there is one), and a receive that merely   *)
(* times out never increments it.                                          *)
(***************************************************************************)
\* The failure whose handling is under way and has not yet reached its
\* increment_error.
Uncounted ==
    IF srv.pc = "add_sent" /\ srv.after \in {"send_failed", "recv_failed"} THEN 1 ELSE 0

C39_ErrorsAreFailures ==
    (srv.pc # "off" /\ variant = "session") =>
        counters.errors + Uncounted = srv_faults

\* A failure has been counted, and a receive has timed out since.
C39_Witness ==
    /\ variant = "session" /\ srv.pc = "recv"
    /\ srv.last_step \in {"recv_from_expired", "recv_expired"}
    /\ srv_faults > 0 /\ counters.errors = srv_faults

(***************************************************************************)
(* C40.  Within a phase over a datagram transport, one echo that arrives   *)
(* after its own attempt timed out costs a bounded number of losses: every *)
(* later attempt whose own echo arrives within its read timeout is still   *)
(* recorded as a success.  So: an attempt that ends on a datagram while    *)
(* its own echo has arrived at the socket is recorded as a success.        *)
(***************************************************************************)
C40_LateEchoBounded ==
    [][(/\ phase # "exit" /\ pc = "recv"
        /\ impl = "lib" \/ phase = "measurement"
        /\ \E i \in DOMAIN rxbuf : rxbuf[i] = Probe
        /\ Len(attempts') = Len(attempts) + 1
        /\ attempts'[Len(attempts')].event = "packet")
       => attempts'[Len(attempts')].succ = 1]_vars

=========================================================================
